---- MODULE Spec2Model ----
(***************************************************************************)
(* Verification model of obsidian-local-fast-vector-search.                *)
(*                                                                         *)
(*   Part 1  the integrated worker's message handler                       *)
(*           (core/workers/IntegratedWorker.worker.ts) and the caller-side *)
(*           correlation layer that talks to it       -- specification Spec *)
(*   Part 2  the plugin's resource life cycle (main.ts)    -- SpecPlugin   *)
(*   Part 3  the markdown chunker (core/chunking/TextChunker.ts)           *)
(*                                                         -- SpecChunk    *)
(*   Part 4  the chunk cache of MarkdownChunker.chunkMarkdown              *)
(*           (core/chunking/TextChunker.ts, lines 94-252)  -- SpecCache    *)
(*   Part 5  indexing every note (core/services/VectorizationService.ts,   *)
(*           commands.ts)                                  -- SpecIndex    *)
(*   Part 6  note vectors and related chunks (core/services/               *)
(*           NoteVectorService.ts, core/handlers/CommandRegistrar.ts)      *)
(*                                                     -- SpecRetrieval    *)
(*   Part 7  the assembly loop of chunkMarkdown on any list of spans       *)
(*                                                      -- SpecAssemble    *)
(*   Part 8  the loop of splitSentenceByMaxLength, iteration by iteration  *)
(*                                                     -- SpecSubdivide    *)
(*   Part 9  the related-chunks sidebar: ViewManager.handleActiveLeafChange *)
(*           (core/handlers/CommandRegistrar.ts) and RelatedChunksView     *)
(*           (ui/sidebar/RelatedChunksView.ts)           -- SpecSidebar    *)
(*   Part 10 the storage provider PGliteProvider                           *)
(*           (core/storage/pglite/pgworker/index.ts and its worker-proxy   *)
(*           variant, unnamed/part_004)                 -- SpecProvider    *)
(*                                                                         *)
(* The parts share no state; each specification keeps the variables of the *)
(* other parts fixed.  Part 3 calls chunkMarkdown once, on an empty cache; *)
(* Part 4 calls it repeatedly and concurrently; Parts 5 and 6 use its      *)
(* result.                                                                 *)
(***************************************************************************)
EXTENDS Integers, Sequences, FiniteSets, Bags, TLC

VARIABLES
    \* ---- Part 1: worker (IntegratedWorker.worker.ts)
    isInitialized,   \* worker: let isInitialized
    wInbox,          \* requests posted to the worker, not yet handled (FIFO)
    wInitRunning,    \* ids of onmessage invocations suspended inside initialize()
    reqType,         \* id -> type of the request sent with that id ("" = none)
    handled,         \* ids of the requests whose handler has started
    posted,          \* id -> replies the worker has posted carrying that id
    cInbox,          \* bag of messages posted by the worker, not yet delivered
    \* ---- Part 1: caller-side correlation layer
    nextId,          \* next correlation id
    pendingCalls,    \* the pending-calls table (ids)
    handle,          \* id -> completion handle: state, reply it was settled with
    settles          \* id -> number of times its handle was settled

rpcVars == <<isInitialized, wInbox, wInitRunning, reqType, handled, posted,
             cInbox, nextId, pendingCalls, handle, settles>>

VARIABLES
    \* ---- Part 2: the plugin object (main.ts); 0 stands for null
    proxy,                     \* this.proxy: id of the proxy object held, or 0
    initializationPromise,     \* this.initializationPromise: [run, caught], run 0 = null
    commandHandler,            \* this.commandHandler is non-null
    vectorizationService,      \* id of the proxy the service was built with, or 0
    searchService,
    storageManagementService,
    textChunker,               \* this.textChunker is non-null
    notificationService,       \* this.notificationService is non-null
    \* ---- Part 2: activations of the plugin's asynchronous methods
    runPc,                     \* run -> "unused" | "awaitProxy" | "ok" | "failed"
    runProxy,                  \* run -> proxy whose ensureInitialized() it awaits
    ensurePc,                  \* caller -> "idle" | "waiting" | "ok" | "threw"
    ensureWaits,               \* caller -> run whose promise it awaits
    clearPc,                   \* "idle" | "awaitClose" | "awaitDelete" | "threw"
    layoutReadyFired,          \* the onLayoutReady callback has run
    unloaded,                  \* onunload has run
    microtasks,                \* continuations ready to run, in order
    \* ---- Part 2: the proxy objects created so far
    proxyCount,                \* number of proxy objects constructed
    proxyInit,                 \* proxy -> "none" | "initializing" | "ready" | "failed" | "terminated"
    proxyTerminated,           \* proxies whose terminate() has run
    proxyPending,              \* proxy -> kinds of the calls in its pending table
    callState                  \* proxy -> kind -> "none" | "pending" | "settled" | "cancelled"

pluginVars == <<proxy, initializationPromise, commandHandler, vectorizationService,
                searchService, storageManagementService, textChunker,
                notificationService, runPc, runProxy, ensurePc, ensureWaits,
                clearPc, layoutReadyFired, unloaded, microtasks, proxyCount,
                proxyInit, proxyTerminated, proxyPending, callState>>

VARIABLES
    \* ---- Part 3: one chunking of a document (TextChunker.ts)
    noteContent,               \* the document text, a sequence of characters
    filePath,                  \* the path given to chunkText, <<>> when none is given
    lineBreakSplits,           \* the sentence-splitter build ends a sentence at a line break
    chunkPc,                   \* "ready" | "done"
    chunksFromMarkdown,        \* the Chunk[] chunkMarkdown returned
    chunkInfos                 \* the ChunkInfo[] chunkText returned

chunkVars == <<noteContent, filePath, lineBreakSplits, chunkPc, chunksFromMarkdown,
               chunkInfos>>

VARIABLES
    \* ---- Part 4: MarkdownChunker's static cache and the objects it shares
    cache,                     \* MarkdownChunker.cache: its entries in insertion order,
                               \*   each [key, chunks (references), timestamp]
    clock,                     \* Date.now()
    chunkObjs,                 \* the live Chunk objects: reference -> fields
    idArrays,                  \* the live contributingSegmentIds arrays: reference -> ids
    \* ---- Part 4: the calls of chunkMarkdown
    callPc,                    \* caller -> "idle" | "hashing" | "hit" | "miss"
    callText,                  \* caller -> the noteContent of its call
    callResult                 \* caller -> the Chunk[] it was given (references)

cacheVars == <<cache, clock, chunkObjs, idArrays, callPc, callText, callResult>>

VARIABLES
    \* ---- Part 5: the vault and one run of VectorizationService.vectorizeAllNotes
    vaultFiles,                \* app.vault.getMarkdownFiles(): [path, content] in order
    onProgress,                \* whether the caller gave an onProgress callback
    indexPc,                   \* "idle" | "reading" | "storing" | "returned" | "threw"
    fileIndex,                 \* the loop's fileIndex (0-based)
    allChunksToProcess,        \* the records accumulated
    logged,                    \* what the logger was given, per file: [path, line]
    progress,                  \* what onProgress was given: [path, message, isOverallProgress]
    storeCalls,                \* the arguments of the vectorizeAndStoreChunks calls made
    storeReply,                \* [status: "none" | "resolved" | "rejected", count]
    totalVectorsProcessed,     \* the run's totalVectorsProcessed
    \* ---- Part 5: one run of CommandHandler.vectorizeAllNotes
    cmdPc,                     \* "idle" | "reading" | "vectorizing" | "returned"
    cmdFileIndex,              \* the number of files the read loop has read
    allItems,                  \* the [file, sentence] items collected
    batchStart,                \* the batch loop's i
    vectorizeCalls,            \* the arguments of the vectorizeSentences calls made
    cmdResults                 \* the run's `results`: [file, vector]

indexVars == <<vaultFiles, onProgress, indexPc, fileIndex, allChunksToProcess, logged,
               progress, storeCalls, storeReply, totalVectorsProcessed, cmdPc,
               cmdFileIndex, allItems, batchStart, vectorizeCalls, cmdResults>>

VARIABLES
    \* ---- Part 6: NoteVectorService and the related-chunks view
    settings,                  \* the plugin settings the view reads
    ignoredPaths,              \* the paths the user's ignore filters match
    storedPaths,               \* the paths that have vectors in the store
    svcOp,                     \* the NoteVectorService method running, or "none"
    svcPc,                     \* the await it is suspended at, "returned" or "threw"
    svcArgs,                   \* its arguments and locals
    svcResult,                 \* what it returned or that it threw
    workerCalls,               \* the calls made on the worker proxy, with their replies
    viewPc,                    \* ViewManager.processMarkdownFile: "idle" |
                               \*   "getting vector" | "searching" | "shown" |
                               \*   "missing" | "error"
    activeFile,                \* the active note's path
    shownResults               \* the results given to the sidebar view

retrievalVars == <<settings, ignoredPaths, storedPaths, svcOp, svcPc, svcArgs, svcResult,
                   workerCalls, viewPc, activeFile, shownResults>>

VARIABLES
    \* ---- Part 7: the assembly loop of chunkMarkdown on a list of spans
    spanList,                  \* `sentences`: the spans [text, startOffset, endOffset]
    spanShift,                 \* frontmatterLength
    assemblyPc,                \* "ready" | "done"
    assembledChunks            \* `chunks` after the loop and the last push

assemblyVars == <<spanList, spanShift, assemblyPc, assembledChunks>>

VARIABLES
    \* ---- Part 8: one call of splitSentenceByMaxLength, iteration by iteration
    splitText,                 \* `sentenceText`
    splitBase,                 \* `baseStartOffset`
    splitPc,                   \* "ready" | "loop" | "returned"
    splitCursor,               \* `cursor`
    splitSegments,             \* `segments`
    splitIterations            \* the number of times the loop's body has run

subdivideVars == <<splitText, splitBase, splitPc, splitCursor, splitSegments,
                   splitIterations>>

VARIABLES
    \* ---- Part 9: ViewManager.handleActiveLeafChange and the RelatedChunksView
    workspaceFile,             \* app.workspace.getActiveFile()?.path, or NoPath
    debouncePending,           \* a call of the debounced handleActiveLeafChange waits
    lastProcessedFilePath,     \* ViewManager.lastProcessedFilePath
    noteVectorServiceReady,    \* getNoteVectorService() / getSearchService() give a service
    autoShowSidebar,           \* settings.autoShowRelatedChunksSidebar
    sidebarOpen,               \* getLeavesOfType(VIEW_TYPE_RELATED_CHUNKS) is not empty
    lookups,                   \* the processMarkdownFile runs started, in order:
                               \*   [file, pc]
    relatedChunksView,         \* the view's currentNoteName, currentResults,
                               \*   isSearchResultsMode, searchQuery
    searchPc,                  \* searchAndDisplayInSidebar: "idle" | "searching"
    handledSinceReset,         \* the paths handleActiveLeafChange has run for since
                               \*   resetLastProcessedFile was last called
    lastRun                    \* the last run of handleActiveLeafChange: its path,
                               \*   whether that was in handledSinceReset, whether
                               \*   it started a lookup

viewVars == <<workspaceFile, debouncePending, lastProcessedFilePath,
              noteVectorServiceReady, autoShowSidebar, sidebarOpen, lookups,
              relatedChunksView, searchPc, handledSinceReset, lastRun>>

VARIABLES
    \* ---- Part 10: PGliteProvider
    providerFile,              \* which of the two PGliteProvider files is run
    pgClient,                  \* this.pgClient: 0 (null) or the client's number
    pgInitialized,             \* this.isInitialized
    clientsCreated,            \* the number of clients created so far
    closedClients,             \* the clients whose close() has resolved
    initPc,                    \* initialize(): "idle" | "loading" | "creating"
    closePc,                   \* close(): "idle" | "closing"
    discardPc                  \* discardDB(): "idle" | "closing" | "deleting"

providerVars == <<providerFile, pgClient, pgInitialized, clientsCreated, closedClients,
                  initPc, closePc, discardPc>>

laterVars == <<subdivideVars, viewVars, providerVars>>

serviceVars == <<indexVars, retrievalVars, assemblyVars, laterVars>>

vars == <<rpcVars, pluginVars, chunkVars, cacheVars, serviceVars>>

(***************************************************************************)
(* Bounds                                                                  *)
(***************************************************************************)
MaxCalls == 3        \* calls issued through the correlation layer
MaxProxies == 2      \* proxy objects constructed in one behaviour
MaxRuns == 3         \* activations of initializeResources in one behaviour
MaxEnsure == 2       \* concurrent callers of ensureResourcesInitialized
MaxBody == 4         \* tokens in a document's body

\* The chunker's size limits, scaled down so that bounded documents reach
\* them (appConstants.ts has 1000, 100 and 5); their order is the program's:
\* MIN_SENTENCE_CHARS < MAX_SENTENCE_CHARS < MAX_CHUNK_SIZE.
MAX_CHUNK_SIZE == 5
MAX_SENTENCE_CHARS == 3
MIN_SENTENCE_CHARS == 2

MaxClock == 2        \* the last value Date.now() takes

\* The cache's limits, scaled down likewise (TextChunker.ts has 100 entries
\* and 5 * 60 * 1000 ms).
MAX_CACHE_SIZE == 2
CACHE_TTL_MS == 1

MaxFiles == 3        \* markdown files in the vault
BatchSize == 2       \* commands.ts: batchSize (128), scaled down likewise

\* pluginSettings.ts: relatedChunksResultLimit (30), scaled down likewise.
RelatedChunksResultLimit == 2

MaxSpans == 3        \* spans given to the assembly loop

Ids ==1..MaxCalls
NoId == 0            \* the id of a message that carries none (status messages)

(***************************************************************************)
(* Part 1.  IntegratedWorker.worker.ts                                     *)
(***************************************************************************)
KnownRequestTypes ==
    {"initialize", "vectorizeAndStore", "search", "rebuildDb",
     "testSimilarity", "closeDb"}

\* A type the switch has no case for stands for every such type.
RequestTypes == KnownRequestTypes \cup {"bogus"}

NotInitializedMessage == "Worker not initialized. Call initialize first."

\* postLogMessage: a message {type: "status", payload: {level, ...}} with no id.
StatusMessage(level) ==
    [id |-> NoId, type |-> "status", payload |-> <<level>>]

Reply(id, type, payload) == [id |-> id, type |-> type, payload |-> payload]

\* Mutant of ResponseType: the "search" case posts the reply type copied from
\* the case above it.
ResponseTypeCopied(type) ==
    CASE type = "initialize"        -> "initialized"
      [] type = "vectorizeAndStore" -> "vectorizeAndStoreResult"
      [] type = "search"            -> "vectorizeAndStoreResult"
      [] type = "rebuildDb"         -> "rebuildDbResult"
      [] type = "testSimilarity"    -> "testSimilarityResult"
      [] type = "closeDb"           -> "dbClosed"
      [] OTHER                      -> "error"

\* The type of the reply each case of the switch posts on success.
ResponseType(type) ==
    CASE type = "initialize"        -> "initialized"
      [] type = "vectorizeAndStore" -> "vectorizeAndStoreResult"
      [] type = "search"            -> "searchResult"
      [] type = "rebuildDb"         -> "rebuildDbResult"
      [] type = "testSimilarity"    -> "testSimilarityResult"
      [] type = "closeDb"           -> "dbClosed"
      [] OTHER                      -> "error"

\* The payload of the reply each case of the switch posts on success.
ResponsePayload(type) ==
    CASE type = "vectorizeAndStore" -> <<"success:false", "processedCount:0", "Not yet implemented">>
      [] type = "search"            -> <<"results:[]">>
      [] type = "rebuildDb"         -> <<"success:false", "Not yet implemented">>
      [] type = "testSimilarity"    -> <<"Test not yet implemented">>
      [] type = "closeDb"           -> <<"true">>
      [] OTHER                      -> <<>>

\* Mutant of ReplyId: every reply carries the id of the first request.
ReplyIdOfFirstRequest(id) == 1

\* The id a reply carries: the id destructured from the request.
ReplyId(id) == id

\* postLogMessage(level, ...) followed by postMessage(reply): both messages
\* travel to the caller; posted records the reply under the id it carries.
Post(level, reply) ==
    /\ cInbox' = (cInbox (+) SetToBag({StatusMessage(level)})) (+) SetToBag({reply})
    /\ posted' = [posted EXCEPT ![reply.id] =
                     Append(@, [type |-> reply.type, payload |-> reply.payload])]

\* catch (error) of onmessage: the reply {id, type: "error",
\* payload: `Error processing ${type}: ${error.message}`}
ErrorReply(id, type, message) ==
    Reply(ReplyId(id), "error", <<"Error processing", type, message>>)

\* default: of the switch: the reply {id, type: "error",
\* payload: `Unknown message type: ${type}`}
UnknownTypeReply(id, type) ==
    Reply(ReplyId(id), "error", <<"Unknown message type", type>>)

\* Mutant of HandleInitialize: the flag is set before the await instead of
\* after it.
HandleInitializeFlagEarly(req) ==
    IF isInitialized
    THEN /\ Post("info", Reply(ReplyId(req.id), "initialized", <<"true">>))
         /\ UNCHANGED <<isInitialized, wInitRunning>>
    ELSE /\ cInbox' = cInbox (+) SetToBag({StatusMessage("info")})
         /\ wInitRunning' = wInitRunning \cup {req.id}
         /\ isInitialized' = TRUE
         /\ UNCHANGED posted

\* case "initialize" up to the first suspension: initialize() returns true at
\* once when isInitialized, and otherwise logs and awaits the (dummy) resource
\* initialization, leaving the handler suspended.
HandleInitialize(req) ==
    IF isInitialized
    THEN /\ Post("info", Reply(ReplyId(req.id), "initialized", <<"true">>))
         /\ UNCHANGED <<isInitialized, wInitRunning>>
    ELSE /\ cInbox' = cInbox (+) SetToBag({StatusMessage("info")})
         /\ wInitRunning' = wInitRunning \cup {req.id}
         /\ UNCHANGED <<isInitialized, posted>>

\* cases "vectorizeAndStore", "search", "rebuildDb", "testSimilarity",
\* "closeDb": throw when not initialized (caught: error reply), else log and
\* post the case's reply.
HandleGuarded(req) ==
    /\ IF ~isInitialized
       THEN Post("error", ErrorReply(req.id, req.type, NotInitializedMessage))
       ELSE Post("info", Reply(ReplyId(req.id), ResponseType(req.type),
                               ResponsePayload(req.type)))
    /\ UNCHANGED <<isInitialized, wInitRunning>>

\* default: log a warning and post an error reply.
HandleUnknown(req) ==
    /\ Post("warn", UnknownTypeReply(req.id, req.type))
    /\ UNCHANGED <<isInitialized, wInitRunning>>

\* worker.onmessage: the next request is taken from the channel and handled
\* up to the handler's first suspension point.
OnMessage ==
    /\ wInbox # <<>>
    /\ LET req == Head(wInbox) IN
         /\ wInbox' = Tail(wInbox)
         /\ handled' = handled \cup {req.id}
         /\ CASE req.type = "initialize"        -> HandleInitialize(req)
              [] req.type \in KnownRequestTypes \ {"initialize"} -> HandleGuarded(req)
              [] OTHER                          -> HandleUnknown(req)
    /\ UNCHANGED <<reqType, nextId, pendingCalls, handle, settles>>
    /\ UNCHANGED <<pluginVars, chunkVars, cacheVars, serviceVars>>

\* initialize() after its await: on success set isInitialized, log, return
\* true; on an exception log and return false.  onmessage then posts
\* {id, type: "initialized", payload: initResult}.
InitializeDone(id) ==
    /\ id \in wInitRunning
    /\ wInitRunning' = wInitRunning \ {id}
    /\ \E ok \in BOOLEAN :
         IF ok
         THEN /\ isInitialized' = TRUE
              /\ Post("info", Reply(ReplyId(id), "initialized", <<"true">>))
         ELSE /\ isInitialized' = isInitialized
              /\ Post("error", Reply(ReplyId(id), "initialized", <<"false">>))
    /\ UNCHANGED <<wInbox, reqType, handled, nextId, pendingCalls, handle, settles>>
    /\ UNCHANGED <<pluginVars, chunkVars, cacheVars, serviceVars>>

(***************************************************************************)
(* Part 1.  The caller-side correlation layer (IntegratedWorkerProxy).     *)
(* Its source is not among the repository's files; it is modelled from     *)
(* the behaviour its callers and the worker's message contract rely on.    *)
(***************************************************************************)
NoHandle == [state |-> "none", type |-> "", payload |-> <<>>]
PendingHandle == [state |-> "pending", type |-> "", payload |-> <<>>]

\* A call: a fresh correlation id, an entry in the pending-calls table and
\* the request {id, type, payload} posted to the worker.
Call(type) ==
    /\ nextId <= MaxCalls
    /\ nextId' = nextId + 1
    /\ reqType' = [reqType EXCEPT ![nextId] = type]
    /\ pendingCalls' = pendingCalls \cup {nextId}
    /\ handle' = [handle EXCEPT ![nextId] = PendingHandle]
    /\ wInbox' = Append(wInbox, [id |-> nextId, type |-> type])
    /\ UNCHANGED <<isInitialized, wInitRunning, handled, posted, cInbox, settles>>
    /\ UNCHANGED <<pluginVars, chunkVars, cacheVars, serviceVars>>

\* A message from the worker arrives.  A status message is logged.  A reply
\* settles the handle its id names in the table (rejects it when the type
\* is "error", resolves it otherwise) and removes the entry; a reply whose
\* id is not in the table is logged and dropped.
Deliver(m) ==
    /\ BagIn(m, cInbox)
    /\ cInbox' = cInbox (-) SetToBag({m})
    /\ IF m.type # "status" /\ m.id \in pendingCalls
       THEN /\ pendingCalls' = pendingCalls \ {m.id}
            /\ handle' = [handle EXCEPT ![m.id] =
                   [state |-> IF m.type = "error" THEN "rejected" ELSE "resolved",
                    type |-> m.type, payload |-> m.payload]]
            /\ settles' = [settles EXCEPT ![m.id] = @ + 1]
       ELSE UNCHANGED <<pendingCalls, handle, settles>>
    /\ UNCHANGED <<isInitialized, wInbox, wInitRunning, reqType, handled, posted, nextId>>
    /\ UNCHANGED <<pluginVars, chunkVars, cacheVars, serviceVars>>

(***************************************************************************)
(* Part 2.  main.ts: MyVectorPlugin                                        *)
(*                                                                         *)
(* The caller side is single-threaded: a handler runs to its next await,   *)
(* and the continuations made ready by it (microtasks) run, in order,      *)
(* before the next event (a command, a reply from the worker, the          *)
(* layout-ready callback, onunload) is taken.  The logger is left out: it  *)
(* only writes to the console.                                             *)
(***************************************************************************)
Runs == 1..MaxRuns
Callers == 1..MaxEnsure
Proxies == 1..MaxProxies

\* The calls main.ts makes through a proxy: the handshake behind
\* ensureInitialized(), closeDatabase() and testSimilarity().
CallKinds == {"init", "closeDb", "testSimilarity"}

NoPromise == [run |-> 0, caught |-> FALSE]

Task(k, id, ok) == [k |-> k, id |-> id, ok |-> ok]

\* The condition of ensureResourcesInitialized and of initializeResources:
\* all three services, the command handler and the proxy are non-null.
ResourcesReady ==
    /\ vectorizationService # 0
    /\ searchService # 0
    /\ storageManagementService # 0
    /\ commandHandler
    /\ proxy # 0

\* The value a service built now holds: the proxy passed to its constructor
\* (-1: built with a null proxy).
BoundTo(p) == IF p = 0 THEN -1 ELSE p

\* The runs suspended at `await this.proxy.ensureInitialized()` on proxy p, in
\* the order they were started.
AwaitingRuns(p) ==
    SelectSeq([r \in Runs |-> r], LAMBDA r : runPc[r] = "awaitProxy" /\ runProxy[r] = p)

RunTasks(p, ok) ==
    [i \in 1..Len(AwaitingRuns(p)) |-> Task("run", AwaitingRuns(p)[i], ok)]

\* The callers suspended at `await this.initializationPromise` on run r's
\* promise, each with the outcome it observes: the promise stored by the
\* layout-ready callback has the failure caught.
WaitingCallers(r) ==
    SelectSeq([e \in Callers |-> e],
              LAMBDA e : ensurePc[e] = "waiting" /\ ensureWaits[e].run = r)

WaiterTasks(r, ok) ==
    [i \in 1..Len(WaitingCallers(r)) |->
        Task("ensure", WaitingCallers(r)[i], ok \/ ensureWaits[WaitingCallers(r)[i]].caught)]

\* proxy.terminate(), modelled from the spec: every call in the pending
\* table is rejected with a cancellation error, the table is emptied and
\* the channel released.
Terminate(p) ==
    /\ proxyTerminated' = proxyTerminated \cup {p}
    /\ proxyPending' = [proxyPending EXCEPT ![p] = {}]
    /\ callState' = [callState EXCEPT ![p] =
           [k \in CallKinds |-> IF k \in proxyPending[p] THEN "cancelled" ELSE @[k]]]
    /\ proxyInit' = [proxyInit EXCEPT ![p] = "terminated"]

\* The continuations terminate(p) makes ready: the runs awaiting the
\* handshake and the clearResources activation awaiting closeDatabase().
TerminateWakeups(p) ==
    (IF "init" \in proxyPending[p] THEN RunTasks(p, FALSE) ELSE <<>>)
    \o (IF "closeDb" \in proxyPending[p] /\ clearPc = "awaitClose"
        THEN <<Task("clear", 0, FALSE)>> ELSE <<>>)

NoTerminate == UNCHANGED <<proxyTerminated, proxyPending, callState, proxyInit>>

\* The first run not yet used.
FreshRun == CHOOSE r \in Runs : runPc[r] = "unused" /\ \A q \in Runs : q < r => runPc[q] # "unused"

\* initializeResources() from its call to its first await, followed by the
\* caller's assignment `this.initializationPromise = <the promise returned>`
\* (with .catch() attached when caught) and, for a caller e # 0 of
\* ensureResourcesInitialized, by its `await this.initializationPromise`.
\*   - resources already there: the run returns at once;
\*   - this.proxy is null and constructing IntegratedWorkerProxy throws: the
\*     catch block runs before any await;
\*   - otherwise the run is suspended at proxy.ensureInitialized(), which
\*     starts the handshake unless one is in flight or has succeeded.
StartInitialization(caught, e) ==
    /\ \E r \in Runs : runPc[r] = "unused"
    /\ LET r == FreshRun
           h == [run |-> r, caught |-> caught]
       IN
       /\ initializationPromise' = h
       /\ ensureWaits' = IF e = 0 THEN ensureWaits ELSE [ensureWaits EXCEPT ![e] = h]
       /\ ensurePc' = IF e = 0 THEN ensurePc ELSE [ensurePc EXCEPT ![e] = "waiting"]
       /\ IF ResourcesReady
          THEN /\ runPc' = [runPc EXCEPT ![r] = "ok"]
               /\ microtasks' = IF e = 0 THEN <<>> ELSE <<Task("ensure", e, TRUE)>>
               /\ NoTerminate
               /\ UNCHANGED <<proxy, proxyCount, runProxy, commandHandler, textChunker,
                              vectorizationService, searchService, storageManagementService>>
          ELSE \E ctorThrows \in BOOLEAN :
               IF proxy = 0 /\ ctorThrows
               THEN /\ runPc' = [runPc EXCEPT ![r] = "failed"]
                    /\ commandHandler' = FALSE
                    /\ textChunker' = FALSE
                    /\ vectorizationService' = 0
                    /\ searchService' = 0
                    /\ storageManagementService' = 0
                    /\ microtasks' = IF e = 0 THEN <<>> ELSE <<Task("ensure", e, caught)>>
                    /\ NoTerminate
                    /\ UNCHANGED <<proxy, proxyCount, runProxy>>
               ELSE /\ proxy # 0 \/ proxyCount < MaxProxies
                    /\ LET p == IF proxy = 0 THEN proxyCount + 1 ELSE proxy IN
                         /\ proxy' = p
                         /\ proxyCount' = IF proxy = 0 THEN proxyCount + 1 ELSE proxyCount
                         /\ runPc' = [runPc EXCEPT ![r] = "awaitProxy"]
                         /\ runProxy' = [runProxy EXCEPT ![r] = p]
                         /\ IF proxyInit[p] \in {"none", "failed"}
                            THEN /\ proxyInit' = [proxyInit EXCEPT ![p] = "initializing"]
                                 /\ proxyPending' = [proxyPending EXCEPT ![p] = @ \cup {"init"}]
                                 /\ callState' = [callState EXCEPT ![p]["init"] = "pending"]
                                 /\ microtasks' = <<>>
                            ELSE /\ microtasks' = IF proxyInit[p] = "ready"
                                                  THEN <<Task("run", r, TRUE)>> ELSE <<>>
                                 /\ UNCHANGED <<proxyInit, proxyPending, callState>>
                         /\ UNCHANGED <<proxyTerminated, commandHandler, textChunker,
                                        vectorizationService, searchService,
                                        storageManagementService>>

\* The callback registered with workspace.onLayoutReady in onload:
\* this.initializationPromise = this.initializeResources().catch(...)
LayoutReady ==
    /\ ~layoutReadyFired /\ ~unloaded /\ microtasks = <<>>
    /\ layoutReadyFired' = TRUE
    /\ StartInitialization(TRUE, 0)
    /\ UNCHANGED <<notificationService, clearPc, unloaded>>
    /\ UNCHANGED <<rpcVars, chunkVars, cacheVars, serviceVars>>

\* ensureResourcesInitialized(), called by a command, up to its await.
EnsureResourcesInitialized(e) ==
    /\ ~unloaded /\ microtasks = <<>>
    /\ ensurePc[e] # "waiting"
    /\ IF ResourcesReady
       THEN /\ ensurePc' = [ensurePc EXCEPT ![e] = "ok"]
            /\ NoTerminate
            /\ UNCHANGED <<proxy, initializationPromise, commandHandler, textChunker,
                           vectorizationService, searchService, storageManagementService,
                           runPc, runProxy, ensureWaits, microtasks, proxyCount>>
       ELSE IF initializationPromise.run = 0
       THEN StartInitialization(FALSE, e)
       ELSE /\ ensurePc' = [ensurePc EXCEPT ![e] = "waiting"]
            /\ ensureWaits' = [ensureWaits EXCEPT ![e] = initializationPromise]
            /\ microtasks' =
                 IF runPc[initializationPromise.run] = "awaitProxy" THEN <<>>
                 ELSE <<Task("ensure", e, runPc[initializationPromise.run] = "ok"
                                          \/ initializationPromise.caught)>>
            /\ NoTerminate
            /\ UNCHANGED <<proxy, initializationPromise, commandHandler, textChunker,
                           vectorizationService, searchService, storageManagementService,
                           runPc, runProxy, proxyCount>>
    /\ UNCHANGED <<notificationService, clearPc, layoutReadyFired, unloaded>>
    /\ UNCHANGED <<rpcVars, chunkVars, cacheVars, serviceVars>>

\* The worker module as loaded, nothing sent yet.
InitRpc ==
    /\ isInitialized = FALSE
    /\ wInbox = <<>>
    /\ wInitRunning = {}
    /\ reqType = [i \in Ids |-> ""]
    /\ handled = {}
    /\ posted = [i \in 0..MaxCalls |-> <<>>]
    /\ cInbox = EmptyBag
    /\ nextId = 1
    /\ pendingCalls = {}
    /\ handle = [i \in Ids |-> NoHandle]
    /\ settles = [i \in Ids |-> 0]

Next ==
    \/ \E type \in RequestTypes : Call(type)
    \/ OnMessage
    \/ \E id \in Ids : InitializeDone(id)
    \/ \E m \in BagToSet(cInbox) : Deliver(m)


\* The handshake behind proxy.ensureInitialized() ends: the worker's reply to
\* "initialize" arrives (ok) or the handshake fails.  The runs awaiting it
\* become ready to continue.
ProxyInitReply(p, ok) ==
    /\ microtasks = <<>>
    /\ "init" \in proxyPending[p]
    /\ proxyPending' = [proxyPending EXCEPT ![p] = @ \ {"init"}]
    /\ proxyInit' = [proxyInit EXCEPT ![p] = IF ok THEN "ready" ELSE "failed"]
    /\ callState' = [callState EXCEPT ![p]["init"] = "settled"]
    /\ microtasks' = RunTasks(p, ok)
    /\ UNCHANGED <<proxy, initializationPromise, commandHandler, vectorizationService,
                   searchService, storageManagementService, textChunker,
                   notificationService, runPc, runProxy, ensurePc, ensureWaits,
                   clearPc, layoutReadyFired, unloaded, proxyCount, proxyTerminated>>
    /\ UNCHANGED <<rpcVars, chunkVars, cacheVars, serviceVars>>

\* initializeResources() after `await this.proxy.ensureInitialized()`.
\* ok: the chunker, the services (built with this.proxy), the notification
\* service and the command handler are created where missing; if anything is
\* still missing the run throws.  A failure, of the await or thrown here,
\* runs the catch block: everything is reset, the promise is forgotten, and
\* the proxy, if any, is terminated and dropped.
ResumeInitializeResources ==
    /\ microtasks # <<>> /\ Head(microtasks).k = "run"
    /\ LET t == Head(microtasks)
           r == t.id
           succeeds == t.ok /\ proxy # 0
       IN
       /\ runPc[r] = "awaitProxy"
       /\ runPc' = [runPc EXCEPT ![r] = IF succeeds THEN "ok" ELSE "failed"]
       /\ runProxy' = [runProxy EXCEPT ![r] = 0]
       /\ notificationService' = (notificationService \/ t.ok)
       /\ IF succeeds
          THEN /\ textChunker' = TRUE
               /\ vectorizationService' =
                     IF vectorizationService = 0 THEN BoundTo(proxy) ELSE vectorizationService
               /\ searchService' =
                     IF searchService = 0 THEN BoundTo(proxy) ELSE searchService
               /\ storageManagementService' =
                     IF storageManagementService = 0 THEN BoundTo(proxy)
                     ELSE storageManagementService
               /\ commandHandler' = TRUE
               /\ microtasks' = Tail(microtasks) \o WaiterTasks(r, TRUE)
               /\ NoTerminate
               /\ UNCHANGED <<proxy, initializationPromise>>
          ELSE /\ commandHandler' = FALSE
               /\ textChunker' = FALSE
               /\ vectorizationService' = 0
               /\ searchService' = 0
               /\ storageManagementService' = 0
               /\ initializationPromise' = NoPromise
               /\ proxy' = 0
               /\ IF proxy # 0
                  THEN /\ Terminate(proxy)
                       /\ microtasks' = (Tail(microtasks) \o TerminateWakeups(proxy))
                                        \o WaiterTasks(r, FALSE)
                  ELSE /\ NoTerminate
                       /\ microtasks' = Tail(microtasks) \o WaiterTasks(r, FALSE)
    /\ UNCHANGED <<ensurePc, ensureWaits, clearPc, layoutReadyFired,
                   unloaded, proxyCount>>
    /\ UNCHANGED <<rpcVars, chunkVars, cacheVars, serviceVars>>

\* ensureResourcesInitialized() after `await this.initializationPromise`: a
\* rejected promise throws; otherwise the resources are checked again.
ResumeEnsure ==
    /\ microtasks # <<>> /\ Head(microtasks).k = "ensure"
    /\ LET t == Head(microtasks) IN
         /\ ensurePc[t.id] = "waiting"
         /\ ensurePc' = [ensurePc EXCEPT ![t.id] =
                IF t.ok /\ ResourcesReady THEN "ok" ELSE "threw"]
         /\ ensureWaits' = [ensureWaits EXCEPT ![t.id] = NoPromise]
    /\ microtasks' = Tail(microtasks)
    /\ NoTerminate
    /\ UNCHANGED <<proxy, initializationPromise, commandHandler, vectorizationService,
                   searchService, storageManagementService, textChunker,
                   notificationService, runPc, runProxy, clearPc,
                   layoutReadyFired, unloaded, proxyCount>>
    /\ UNCHANGED <<rpcVars, chunkVars, cacheVars, serviceVars>>

\* clearResources() up to its first await.  With a proxy it calls
\* proxy.closeDatabase(); the call enters the pending table, or, on a proxy
\* whose handshake has not completed, may be refused at once.  Without a
\* proxy it goes on to deleteDB().
ClearResources ==
    /\ ~unloaded /\ microtasks = <<>>
    /\ clearPc \in {"idle", "threw"}
    /\ IF proxy = 0
       THEN /\ clearPc' = "awaitDelete"
            /\ UNCHANGED <<proxyPending, callState, microtasks>>
       ELSE /\ clearPc' = "awaitClose"
            /\ \E accepted \in BOOLEAN :
                 /\ proxyInit[proxy] = "ready" => accepted
                 /\ IF accepted
                    THEN /\ proxyPending' = [proxyPending EXCEPT ![proxy] = @ \cup {"closeDb"}]
                         /\ callState' = [callState EXCEPT ![proxy]["closeDb"] = "pending"]
                         /\ microtasks' = <<>>
                    ELSE /\ callState' = [callState EXCEPT ![proxy]["closeDb"] = "settled"]
                         /\ microtasks' = <<Task("clear", 0, FALSE)>>
                         /\ UNCHANGED proxyPending
    /\ UNCHANGED <<proxy, initializationPromise, commandHandler, vectorizationService,
                   searchService, storageManagementService, textChunker,
                   notificationService, runPc, runProxy, ensurePc, ensureWaits,
                   layoutReadyFired, unloaded, proxyCount, proxyInit, proxyTerminated>>
    /\ UNCHANGED <<rpcVars, chunkVars, cacheVars, serviceVars>>

\* The worker's reply to closeDatabase() arrives.
CloseDbReply(p, ok) ==
    /\ microtasks = <<>>
    /\ "closeDb" \in proxyPending[p]
    /\ proxyPending' = [proxyPending EXCEPT ![p] = @ \ {"closeDb"}]
    /\ callState' = [callState EXCEPT ![p]["closeDb"] = "settled"]
    /\ microtasks' = IF clearPc = "awaitClose" THEN <<Task("clear", 0, ok)>> ELSE <<>>
    /\ UNCHANGED <<proxy, initializationPromise, commandHandler, vectorizationService,
                   searchService, storageManagementService, textChunker,
                   notificationService, runPc, runProxy, ensurePc, ensureWaits,
                   clearPc, layoutReadyFired, unloaded, proxyCount, proxyInit,
                   proxyTerminated>>
    /\ UNCHANGED <<rpcVars, chunkVars, cacheVars, serviceVars>>

\* clearResources() after `await this.proxy.closeDatabase()` (a failure is
\* caught): this.proxy.terminate() -- a TypeError when this.proxy has become
\* null meanwhile --, then the proxy, the promise, the services and the
\* command handler are reset, and deleteDB() is awaited.
\* (Before it, the same with the command handler left in place.)
ResumeClearResourcesKeepingHandler ==
    /\ microtasks # <<>> /\ Head(microtasks).k = "clear"
    /\ clearPc = "awaitClose"
    /\ IF proxy = 0
       THEN /\ clearPc' = "threw"
            /\ microtasks' = Tail(microtasks)
            /\ NoTerminate
            /\ UNCHANGED <<proxy, initializationPromise, commandHandler,
                           vectorizationService, searchService, storageManagementService>>
       ELSE /\ clearPc' = "awaitDelete"
            /\ Terminate(proxy)
            /\ microtasks' = Tail(microtasks) \o TerminateWakeups(proxy)
            /\ proxy' = 0
            /\ initializationPromise' = NoPromise
            /\ vectorizationService' = 0
            /\ searchService' = 0
            /\ storageManagementService' = 0
            /\ UNCHANGED commandHandler
    /\ UNCHANGED <<textChunker, notificationService, runPc, runProxy, ensurePc,
                   ensureWaits, layoutReadyFired, unloaded, proxyCount>>
    /\ UNCHANGED <<rpcVars, chunkVars, cacheVars, serviceVars>>

ResumeClearResources ==
    /\ microtasks # <<>> /\ Head(microtasks).k = "clear"
    /\ clearPc = "awaitClose"
    /\ IF proxy = 0
       THEN /\ clearPc' = "threw"
            /\ microtasks' = Tail(microtasks)
            /\ NoTerminate
            /\ UNCHANGED <<proxy, initializationPromise, commandHandler,
                           vectorizationService, searchService, storageManagementService>>
       ELSE /\ clearPc' = "awaitDelete"
            /\ Terminate(proxy)
            /\ microtasks' = Tail(microtasks) \o TerminateWakeups(proxy)
            /\ proxy' = 0
            /\ initializationPromise' = NoPromise
            /\ vectorizationService' = 0
            /\ searchService' = 0
            /\ storageManagementService' = 0
            /\ commandHandler' = FALSE
    /\ UNCHANGED <<textChunker, notificationService, runPc, runProxy, ensurePc,
                   ensureWaits, layoutReadyFired, unloaded, proxyCount>>
    /\ UNCHANGED <<rpcVars, chunkVars, cacheVars, serviceVars>>

\* clearResources() after `await deleteDB(...)`: the rest of the method
\* (cache deletion, notices) touches no field of the plugin.
DeleteDbDone ==
    /\ microtasks = <<>>
    /\ clearPc = "awaitDelete"
    /\ clearPc' = "idle"
    /\ NoTerminate
    /\ UNCHANGED <<proxy, initializationPromise, commandHandler, vectorizationService,
                   searchService, storageManagementService, textChunker,
                   notificationService, runPc, runProxy, ensurePc, ensureWaits,
                   layoutReadyFired, unloaded, microtasks, proxyCount>>
    /\ UNCHANGED <<rpcVars, chunkVars, cacheVars, serviceVars>>

\* The "test-vectorization" command after ensureResourcesInitialized() has
\* returned: this.proxy.testSimilarity() is called and awaited.
TestSimilarityCommand ==
    /\ ~unloaded /\ microtasks = <<>>
    /\ ResourcesReady
    /\ "testSimilarity" \notin proxyPending[proxy]
    /\ proxyPending' = [proxyPending EXCEPT ![proxy] = @ \cup {"testSimilarity"}]
    /\ callState' = [callState EXCEPT ![proxy]["testSimilarity"] = "pending"]
    /\ UNCHANGED <<proxy, initializationPromise, commandHandler, vectorizationService,
                   searchService, storageManagementService, textChunker,
                   notificationService, runPc, runProxy, ensurePc, ensureWaits,
                   clearPc, layoutReadyFired, unloaded, microtasks, proxyCount,
                   proxyInit, proxyTerminated>>
    /\ UNCHANGED <<rpcVars, chunkVars, cacheVars, serviceVars>>

\* The worker's reply to testSimilarity() arrives.
TestSimilarityReply(p, ok) ==
    /\ microtasks = <<>>
    /\ "testSimilarity" \in proxyPending[p]
    /\ proxyPending' = [proxyPending EXCEPT ![p] = @ \ {"testSimilarity"}]
    /\ callState' = [callState EXCEPT ![p]["testSimilarity"] =
                        "settled"]
    /\ UNCHANGED <<proxy, initializationPromise, commandHandler, vectorizationService,
                   searchService, storageManagementService, textChunker,
                   notificationService, runPc, runProxy, ensurePc, ensureWaits,
                   clearPc, layoutReadyFired, unloaded, microtasks, proxyCount,
                   proxyInit, proxyTerminated>>
    /\ UNCHANGED <<rpcVars, chunkVars, cacheVars, serviceVars>>

\* Mutant of Onunload: the fields are reset but the proxy is dropped without
\* terminate().
OnunloadWithoutTerminate ==
    /\ ~unloaded /\ microtasks = <<>>
    /\ unloaded' = TRUE
    /\ NoTerminate
    /\ microtasks' = <<>>
    /\ commandHandler' = FALSE
    /\ notificationService' = FALSE
    /\ textChunker' = FALSE
    /\ vectorizationService' = 0
    /\ searchService' = 0
    /\ storageManagementService' = 0
    /\ initializationPromise' = NoPromise
    /\ proxy' = 0
    /\ UNCHANGED <<runPc, runProxy, ensurePc, ensureWaits, clearPc, layoutReadyFired,
                   proxyCount>>
    /\ UNCHANGED <<rpcVars, chunkVars, cacheVars, serviceVars>>

\* onunload(): the proxy, if any, is terminated, and every field is reset.
Onunload ==
    /\ ~unloaded /\ microtasks = <<>>
    /\ unloaded' = TRUE
    /\ IF proxy # 0
       THEN /\ Terminate(proxy)
            /\ microtasks' = TerminateWakeups(proxy)
       ELSE /\ NoTerminate
            /\ microtasks' = <<>>
    /\ commandHandler' = FALSE
    /\ notificationService' = FALSE
    /\ textChunker' = FALSE
    /\ vectorizationService' = 0
    /\ searchService' = 0
    /\ storageManagementService' = 0
    /\ initializationPromise' = NoPromise
    /\ proxy' = 0
    /\ UNCHANGED <<runPc, runProxy, ensurePc, ensureWaits, clearPc, layoutReadyFired,
                   proxyCount>>
    /\ UNCHANGED <<rpcVars, chunkVars, cacheVars, serviceVars>>

\* The plugin after onload(): a proxy has been constructed, nothing else.
InitPlugin ==
    /\ proxy = 1
    /\ initializationPromise = NoPromise
    /\ commandHandler = FALSE
    /\ vectorizationService = 0
    /\ searchService = 0
    /\ storageManagementService = 0
    /\ textChunker = FALSE
    /\ notificationService = FALSE
    /\ runPc = [r \in Runs |-> "unused"]
    /\ runProxy = [r \in Runs |-> 0]
    /\ ensurePc = [e \in Callers |-> "idle"]
    /\ ensureWaits = [e \in Callers |-> NoPromise]
    /\ clearPc = "idle"
    /\ layoutReadyFired = FALSE
    /\ unloaded = FALSE
    /\ microtasks = <<>>
    /\ proxyCount = 1
    /\ proxyInit = [p \in Proxies |-> "none"]
    /\ proxyTerminated = {}
    /\ proxyPending = [p \in Proxies |-> {}]
    /\ callState = [p \in Proxies |-> [k \in CallKinds |-> "none"]]

NextPlugin ==
    \/ LayoutReady
    \/ \E e \in Callers : EnsureResourcesInitialized(e)
    \/ \E p \in Proxies : \E ok \in BOOLEAN : ProxyInitReply(p, ok)
    \/ ResumeInitializeResources
    \/ ResumeEnsure
    \/ ClearResources
    \/ \E p \in Proxies : \E ok \in BOOLEAN : CloseDbReply(p, ok)
    \/ ResumeClearResources
    \/ DeleteDbDone
    \/ TestSimilarityCommand
    \/ \E p \in Proxies : \E ok \in BOOLEAN : TestSimilarityReply(p, ok)
    \/ Onunload

(***************************************************************************)
(* Part 3: the markdown chunker (core/chunking/TextChunker.ts)             *)
(*                                                                         *)
(* A text is a sequence of one-character strings.  Offsets are the code's: *)
(* 0-based, a range [start, end) is half-open.  chunkText is modelled on   *)
(* the chunk list chunkMarkdown resolves to, and chunkMarkdown on an empty *)
(* cache (lines 163-234), where it computes the chunks from the text.      *)
(***************************************************************************)
MaxOf(S) == CHOOSE x \in S : \A y \in S : y <= x
MinOf(S) == CHOOSE x \in S : \A y \in S : x <= y

\* String.prototype.slice / substring for 0 <= a: the end is clamped to the
\* length, and a start at or after the end gives the empty string.
Slice(s, a, b) == SubSeq(s, a + 1, IF b < Len(s) THEN b ELSE Len(s))

\* String.prototype.charAt: "" outside the string.
CharAt(s, i) == IF 0 <= i /\ i < Len(s) THEN s[i + 1] ELSE ""

\* The regular expressions' \s and [\r\n] over the characters of the model.
IsWhitespace(c) == c \in {" ", "\n", "\r"}
IsLineBreak(c) == c \in {"\n", "\r"}

\* rawSentence.length - rawSentence.trimStart().length, and the same for
\* trimEnd.
TrimmedLeading(s) ==
    MaxOf({k \in 0..Len(s) : \A j \in 1..k : IsWhitespace(s[j])})
TrimmedTrailing(s) ==
    MaxOf({k \in 0..Len(s) : \A j \in (Len(s) - k + 1)..Len(s) : IsWhitespace(s[j])})

\* raw.slice(trimmedLeading, trimmedTrailing > 0 ? -trimmedTrailing : undefined)
TrimmedSlice(s) == Slice(s, TrimmedLeading(s), Len(s) - TrimmedTrailing(s))

\* !text.trim()
IsBlank(s) == \A j \in 1..Len(s) : IsWhitespace(s[j])

\* ---- removeFrontmatter:
\*      /^---\s*[\r\n]+([\s\S]*?)[\r\n]+---\s*[\r\n]+/
Dashes == <<"-", "-", "-">>
DashesAt(s, i) == i + 3 <= Len(s) /\ Slice(s, i, i + 3) = Dashes

\* End of the maximal run of characters satisfying the class, from offset i.
WhitespaceRunEnd(s, i) ==
    MinOf({e \in i..Len(s) : e = Len(s) \/ ~IsWhitespace(s[e + 1])})
LineBreakRunEnd(s, i) ==
    MinOf({e \in i..Len(s) : e = Len(s) \/ ~IsLineBreak(s[e + 1])})

\* Offsets at which `\s*[\r\n]+` can end when it starts at offset i: inside
\* the whitespace run from i, right after a line break.
AfterLineBreakEnds(s, i) ==
    {e \in (i + 1)..WhitespaceRunEnd(s, i) : IsLineBreak(s[e])}

\* The closing `[\r\n]+---\s*[\r\n]+` can start at offset c: a run of line
\* breaks from c runs up to `---`, and the whitespace after the dashes
\* holds a line break.
ClosesAt(s, c) ==
    /\ c < Len(s) /\ IsLineBreak(s[c + 1])
    /\ DashesAt(s, LineBreakRunEnd(s, c))
    /\ AfterLineBreakEnds(s, LineBreakRunEnd(s, c) + 3) # {}

\* Where the match ends when its closing part starts at c: the greedy \s*
\* gives back characters until [\r\n]+ has its line break, so the match ends
\* right after the last line break of the whitespace run.
CloseEnd(s, c) == MaxOf(AfterLineBreakEnds(s, LineBreakRunEnd(s, c) + 3))

\* fmMatch[0].length, 0 when the expression does not match.  The opening
\* `\s*[\r\n]+` is greedy: the engine tries its longest end first, and for
\* each the lazy group takes the nearest closing part.
FrontmatterMatchLength(s) ==
    IF ~DashesAt(s, 0) THEN 0
    ELSE LET closings(e) == {c \in e..Len(s) : ClosesAt(s, c)}
             opens == {e \in AfterLineBreakEnds(s, 3) : closings(e) # {}}
         IN IF opens = {} THEN 0
            ELSE CloseEnd(s, MinOf(closings(MaxOf(opens))))

removeFrontmatter(text) ==
    LET n == FrontmatterMatchLength(text)
    IN IF n > 0
       THEN [processedText |-> Slice(text, n, Len(text)), frontmatterLength |-> n]
       ELSE [processedText |-> text, frontmatterLength |-> 0]

\* ---- removeUrls: /https?:\/\/[^\s\)>\]]+/g, each match replaced by as
\*      many spaces.
IsUrlBodyChar(c) == ~IsWhitespace(c) /\ c \notin {")", ">", "]"}

UrlSchemeLength(s, i) ==
    IF i + 7 <= Len(s) /\ Slice(s, i, i + 7) = <<"h", "t", "t", "p", ":", "/", "/">>
    THEN 7
    ELSE IF i + 8 <= Len(s)
            /\ Slice(s, i, i + 8) = <<"h", "t", "t", "p", "s", ":", "/", "/">>
         THEN 8
         ELSE 0

UrlBodyEnd(s, i) ==
    MinOf({e \in i..Len(s) : e = Len(s) \/ ~IsUrlBodyChar(s[e + 1])})

\* Length of the match that starts at offset i, 0 when none does.
UrlMatchLength(s, i) ==
    LET k == UrlSchemeLength(s, i)
    IN IF k > 0 /\ UrlBodyEnd(s, i + k) > i + k THEN UrlBodyEnd(s, i + k) - i ELSE 0

RECURSIVE ReplaceUrlsFrom(_, _)
ReplaceUrlsFrom(s, i) ==
    IF i >= Len(s) THEN <<>>
    ELSE LET n == UrlMatchLength(s, i)
         IN IF n > 0
            THEN [j \in 1..n |-> " "] \o ReplaceUrlsFrom(s, i + n)
            ELSE <<s[i + 1]>> \o ReplaceUrlsFrom(s, i + 1)

\* (Before it, the same with one space for each match.)
RECURSIVE CollapseUrlsFrom(_, _)
CollapseUrlsFrom(s, i) ==
    IF i >= Len(s) THEN <<>>
    ELSE LET n == UrlMatchLength(s, i)
         IN IF n > 0
            THEN <<" ">> \o CollapseUrlsFrom(s, i + n)
            ELSE <<s[i + 1]>> \o CollapseUrlsFrom(s, i + 1)

removeUrlsCollapsed(text) == CollapseUrlsFrom(text, 0)

removeUrls(text) == ReplaceUrlsFrom(text, 0)

\* ---- split() of the sentence-splitter package (called at line 285).  The
\*      package is not part of the repository; what is modelled is its
\*      documented behaviour on plain text: white space between sentences
\*      becomes WhiteSpace nodes, a sentence runs up to and including its
\*      closing separators, a period closes a sentence only before white
\*      space or the end of the text, and (in the builds where
\*      lineBreakSplits holds) a line break ends the sentence before it.
SeparatorCharacters == {".", "?", "!"}

IsSeparatorAt(s, i) ==
    /\ i < Len(s)
    /\ s[i + 1] \in SeparatorCharacters
    /\ (s[i + 1] = ".") => (i + 1 = Len(s) \/ IsWhitespace(s[i + 2]))

SeparatorRunEnd(s, i) ==
    MinOf({e \in (i + 1)..Len(s) : e = Len(s) \/ ~IsSeparatorAt(s, e)})

SentenceNodeEnd(s, i) ==
    LET stop == MinOf({j \in i..Len(s) :
                          \/ j = Len(s)
                          \/ lineBreakSplits /\ IsLineBreak(s[j + 1])
                          \/ IsSeparatorAt(s, j)})
    IN IF IsSeparatorAt(s, stop) THEN SeparatorRunEnd(s, stop) ELSE stop

\* The ranges of the Sentence nodes, in the order split() returns them.
RECURSIVE SentenceRangesFrom(_, _)
SentenceRangesFrom(s, i) ==
    IF i >= Len(s) THEN <<>>
    ELSE IF IsWhitespace(s[i + 1]) THEN SentenceRangesFrom(s, i + 1)
    ELSE LET end == SentenceNodeEnd(s, i)
         IN <<<<i, end>>>> \o SentenceRangesFrom(s, end)

splitSentencesInternal(text) == SentenceRangesFrom(text, 0)

\* ---- splitSentenceByMaxLength and findSplitIndex
SentenceWithOffset(text, startOffset, endOffset) ==
    [text |-> text, startOffset |-> startOffset, endOffset |-> endOffset]

\* /\s/.test(char) || "。、，．,.!?！？；：".includes(char)
isPreferredSplitCharacter(char) ==
    char # "" /\ (IsWhitespace(char) \/ char \in {",", ".", "!", "?"})

\* (Before it, the same walking forward: the first such index.)
findSplitIndexWalkingForward(text, cursor, preferredEnd) ==
    LET found == {i \in (cursor + 1)..preferredEnd :
                     /\ i - cursor >= MIN_SENTENCE_CHARS
                     /\ isPreferredSplitCharacter(CharAt(text, i - 1))}
    IN IF found # {} THEN MinOf(found)
       ELSE MaxOf({cursor + MIN_SENTENCE_CHARS, preferredEnd})

findSplitIndex(text, cursor, preferredEnd) ==
    LET found == {i \in (cursor + 1)..preferredEnd :
                     /\ i - cursor >= MIN_SENTENCE_CHARS
                     /\ isPreferredSplitCharacter(CharAt(text, i - 1))}
    IN IF found # {} THEN MaxOf(found)
       ELSE MaxOf({cursor + MIN_SENTENCE_CHARS, preferredEnd})

\* The end of the segment cut at the cursor (lines 341-352).
\* (Before it, the same without the minimum kept and with the cursor itself
\* for "no separator found".)
SegmentEndOrCursor(sentenceText, cursor) ==
    LET limit == MinOf({cursor + MAX_SENTENCE_CHARS, Len(sentenceText)})
        found == {i \in (cursor + 1)..limit :
                     isPreferredSplitCharacter(CharAt(sentenceText, i - 1))}
    IN IF limit < Len(sentenceText)
       THEN IF found # {} THEN MaxOf(found) ELSE cursor
       ELSE limit

SegmentEnd(sentenceText, cursor) ==
    LET limit == MinOf({cursor + MAX_SENTENCE_CHARS, Len(sentenceText)})
        split == IF limit < Len(sentenceText)
                 THEN findSplitIndex(sentenceText, cursor, limit)
                 ELSE limit
    IN MaxOf({split, cursor + MIN_SENTENCE_CHARS})

\* The span pushed for the segment [cursor, segmentEnd), if any (353-372),
\* preceded by three ways of getting it wrong: the end offset taken from
\* the segment's end instead of the text's length, the start offset
\* without the white space trimmed, and the segment cut one character short.
SegmentSpansEndingAtSegmentEnd(sentenceText, baseStartOffset, cursor, segmentEnd) ==
    LET segmentRaw == Slice(sentenceText, cursor, segmentEnd)
        segmentText == TrimmedSlice(segmentRaw)
        segmentStartOffset == baseStartOffset + cursor + TrimmedLeading(segmentRaw)
    IN IF Len(segmentText) > 0
       THEN <<SentenceWithOffset(segmentText, segmentStartOffset,
                                 baseStartOffset + segmentEnd)>>
       ELSE <<>>

SegmentSpansFromCursor(sentenceText, baseStartOffset, cursor, segmentEnd) ==
    LET segmentRaw == Slice(sentenceText, cursor, segmentEnd)
        segmentText == TrimmedSlice(segmentRaw)
        segmentStartOffset == baseStartOffset + cursor
    IN IF Len(segmentText) > 0
       THEN <<SentenceWithOffset(segmentText, segmentStartOffset,
                                 segmentStartOffset + Len(segmentText))>>
       ELSE <<>>

SegmentSpansCutShort(sentenceText, baseStartOffset, cursor, segmentEnd) ==
    LET segmentRaw == Slice(sentenceText, cursor, segmentEnd - 1)
        segmentText == TrimmedSlice(segmentRaw)
        segmentStartOffset == baseStartOffset + cursor + TrimmedLeading(segmentRaw)
    IN IF Len(segmentText) > 0
       THEN <<SentenceWithOffset(segmentText, segmentStartOffset,
                                 segmentStartOffset + Len(segmentText))>>
       ELSE <<>>

SegmentSpans(sentenceText, baseStartOffset, cursor, segmentEnd) ==
    LET segmentRaw == Slice(sentenceText, cursor, segmentEnd)
        segmentText == TrimmedSlice(segmentRaw)
        segmentStartOffset == baseStartOffset + cursor + TrimmedLeading(segmentRaw)
    IN IF Len(segmentText) > 0
       THEN <<SentenceWithOffset(segmentText, segmentStartOffset,
                                 segmentStartOffset + Len(segmentText))>>
       ELSE <<>>

RECURSIVE SplitFromCursor(_, _, _)
SplitFromCursor(sentenceText, baseStartOffset, cursor) ==
    IF cursor >= Len(sentenceText) THEN <<>>
    ELSE LET segmentEnd == SegmentEnd(sentenceText, cursor)
         IN SegmentSpans(sentenceText, baseStartOffset, cursor, segmentEnd)
            \o SplitFromCursor(sentenceText, baseStartOffset, segmentEnd)

splitSentenceByMaxLength(sentenceText, baseStartOffset) ==
    SplitFromCursor(sentenceText, baseStartOffset, 0)

\* ---- splitIntoSentences
\* The spans one Sentence node contributes (lines 291-329).
NodeSpans(text, range) ==
    LET rangeStart == range[1]
        rangeEnd == range[2]
        rawSentence == Slice(text, rangeStart, rangeEnd)
        trimmedSentence == TrimmedSlice(rawSentence)
        baseStartOffset == rangeStart + TrimmedLeading(rawSentence)
    IN IF rangeEnd <= rangeStart \/ Len(trimmedSentence) = 0 THEN <<>>
       ELSE IF Len(trimmedSentence) > MAX_SENTENCE_CHARS
            THEN splitSentenceByMaxLength(trimmedSentence, baseStartOffset)
            ELSE <<SentenceWithOffset(trimmedSentence, baseStartOffset,
                                      baseStartOffset + Len(trimmedSentence))>>

RECURSIVE SpansOfNodes(_, _)
SpansOfNodes(text, nodes) ==
    IF nodes = <<>> THEN <<>>
    ELSE NodeSpans(text, Head(nodes)) \o SpansOfNodes(text, Tail(nodes))

splitIntoSentences(text) == SpansOfNodes(text, splitSentencesInternal(text))

\* ---- chunkMarkdown
Chunk(text, originalOffsetStart, originalOffsetEnd) ==
    [text |-> text, originalOffsetStart |-> originalOffsetStart,
     originalOffsetEnd |-> originalOffsetEnd, contributingSegmentIds |-> <<>>]

\* The loop's variables before the first sentence (lines 175-178).
AssemblyStart ==
    [chunks |-> <<>>, currentChunk |-> <<>>, chunkStartOffset |-> -1,
     chunkEndOffset |-> -1]

\* const sentenceStart = frontmatterLength + sentence.startOffset, with the
\* offsets taken back to where they were in the unstripped document.
sentenceStartUnshifted(frontmatterLength, sentence) == sentence.startOffset

sentenceStart(frontmatterLength, sentence) == frontmatterLength + sentence.startOffset

\* const sentenceEnd = frontmatterLength + sentence.endOffset (before it, the
\* same without the shift).
sentenceEndUnshifted(frontmatterLength, sentence) == sentence.endOffset

sentenceEnd(frontmatterLength, sentence) == frontmatterLength + sentence.endOffset

\* if (currentChunk) chunks.push({text: currentChunk, ...}) (before it, the
\* same without the push).
PushCurrentDropped(acc) == acc

PushCurrent(acc) ==
    IF acc.currentChunk # <<>>
    THEN [acc EXCEPT !.chunks = Append(@, Chunk(acc.currentChunk, acc.chunkStartOffset,
                                                acc.chunkEndOffset))]
    ELSE acc

\* potential.length <= MAX_CHUNK_SIZE (before it, the same with < and with
\* the separator not counted).
FitsInChunkBelowMaximum(potential) == Len(potential) < MAX_CHUNK_SIZE

FitsInChunkWithSeparatorFree(potential) == Len(potential) <= MAX_CHUNK_SIZE + 1

FitsInChunk(potential) == Len(potential) <= MAX_CHUNK_SIZE

\* currentChunk = sentence.text; chunkStartOffset = sentenceStart;
\* chunkEndOffset = sentenceEnd
StartChunkKeepingStart(acc, sentence, start, end) ==
    [acc EXCEPT !.currentChunk = sentence.text,
                !.chunkStartOffset = IF @ = -1 THEN start ELSE @,
                !.chunkEndOffset = end]

StartChunk(acc, sentence, start, end) ==
    [acc EXCEPT !.currentChunk = sentence.text,
                !.chunkStartOffset = start,
                !.chunkEndOffset = end]

\* One iteration of `for (const sentence of sentences)`.
AssembleSentence(acc, sentence, frontmatterLength) ==
    LET start == sentenceStart(frontmatterLength, sentence)
        end == sentenceEnd(frontmatterLength, sentence)
        potential == acc.currentChunk
                     \o (IF acc.currentChunk # <<>> THEN <<" ">> ELSE <<>>)
                     \o sentence.text
    IN IF Len(sentence.text) > MAX_CHUNK_SIZE
       THEN [chunks |-> Append(PushCurrent(acc).chunks, Chunk(sentence.text, start, end)),
             currentChunk |-> <<>>,
             chunkStartOffset |-> IF acc.currentChunk # <<>> THEN -1
                                  ELSE acc.chunkStartOffset,
             chunkEndOffset |-> IF acc.currentChunk # <<>> THEN -1
                                ELSE acc.chunkEndOffset]
       ELSE IF FitsInChunk(potential)
            THEN [acc EXCEPT !.currentChunk = potential,
                             !.chunkStartOffset = IF @ = -1 THEN start ELSE @,
                             !.chunkEndOffset = end]
            ELSE StartChunk(PushCurrent(acc), sentence, start, end)

RECURSIVE Assemble(_, _, _)
Assemble(acc, sentences, frontmatterLength) ==
    IF sentences = <<>> THEN PushCurrent(acc).chunks
    ELSE Assemble(AssembleSentence(acc, Head(sentences), frontmatterLength),
                  Tail(sentences), frontmatterLength)

chunkMarkdown(content) ==
    LET fm == removeFrontmatter(content)
        textWithoutUrls == removeUrls(fm.processedText)
    IN IF IsBlank(textWithoutUrls) THEN <<>>
       ELSE Assemble(AssemblyStart, splitIntoSentences(textWithoutUrls),
                     fm.frontmatterLength)

\* ---- TextChunker.chunkText
NoPath == <<>>

extractTitleFromPath(path) ==
    LET lastSeparator == MaxOf({0} \cup {i \in 1..Len(path) : path[i] \in {"/", "\\"}})
        fileName == SubSeq(path, lastSeparator + 1, Len(path))
        lastDot == MaxOf({0} \cup {i \in 1..Len(fileName) : fileName[i] = "."})
    IN IF lastDot > 0 /\ lastDot < Len(fileName)
       THEN SubSeq(fileName, 1, lastDot - 1)
       ELSE fileName

ChunkInfo(chunk, path, startPosition, endPosition) ==
    [chunk |-> chunk, filePath |-> path, startPosition |-> startPosition,
     endPosition |-> endPosition]

\* The result when there is nothing to chunk: the title alone, if any
\* (before it, the same without `if (!fileName) return []`).
TitleOnlyEvenWithoutTitle(fileName, path) == <<ChunkInfo(fileName, path, -1, -1)>>

TitleOnly(fileName, path) ==
    IF fileName = <<>> THEN <<>> ELSE <<ChunkInfo(fileName, path, -1, -1)>>

\* chunkText once chunkMarkdown has given `chunks` (<<>> for a blank
\* document, for which it is not called).
chunkText(chunks, path) ==
    LET fileName == extractTitleFromPath(path)
    IN IF chunks = <<>> THEN TitleOnly(fileName, path)
       ELSE [index \in 1..Len(chunks) |->
                ChunkInfo(IF index = 1 /\ fileName # <<>>
                          THEN fileName \o <<":", " ">> \o chunks[index].text
                          ELSE chunks[index].text,
                          path,
                          chunks[index].originalOffsetStart,
                          chunks[index].originalOffsetEnd)]

\* ---- The documents and paths chunked
Url == <<"h", "t", "t", "p", ":", "/", "/", "u">>
Tokens == {<<"a">>, <<"b", "c">>, <<" ">>, <<".">>, <<"\n">>, Url}

RECURSIVE Flatten(_)
Flatten(tokens) == IF tokens = <<>> THEN <<>> ELSE Head(tokens) \o Flatten(Tail(tokens))

Bodies(n) == UNION {[1..k -> Tokens] : k \in 0..n}

\* Openings of a document: metadata blocks the expression matches (plain;
\* with blank lines, where it matches up to the second closing line; with
\* spaces after the dashes), one that does not start the document, and one
\* whose closing line is not ended.
Openings ==
    { <<"-", "-", "-", "\n", "k", "\n", "-", "-", "-", "\n">>,
      <<"-", "-", "-", "\n", "\n", "-", "-", "-", "\n", "\n", "-", "-", "-", "\n">>,
      <<"-", "-", "-", " ", "\n", "k", "\n", "\n", "-", "-", "-", " ", "\n", " ">>,
      <<" ", "-", "-", "-", "\n", "k", "\n", "-", "-", "-", "\n">>,
      <<"-", "-", "-", "\n", "k", "\n", "-", "-", "-">> }

\* A document is a body, or an opening and a body one token shorter.
Documents ==
    {Flatten(b) : b \in Bodies(MaxBody)}
    \cup {o \o Flatten(b) : o \in Openings, b \in Bodies(MaxBody - 1)}

Paths == {NoPath, <<"d", "/", "n", ".", "m", "d">>}

(***************************************************************************)
(* Part 4: the chunk cache (MarkdownChunker, TextChunker.ts lines 94-252)  *)
(*                                                                         *)
(* chunkMarkdown suspends once, at `await this.computeHash(noteContent)`;  *)
(* what follows the await runs without interruption.  Chunk objects and    *)
(* their contributingSegmentIds arrays are kept by reference, so that two  *)
(* lists holding the same object see each other's writes.                  *)
(***************************************************************************)
ChunkCallers == {"c1", "c2"}

\* Two unpaired surrogate code units: ordinary characters to the chunker.
HighSurrogate == "\\uD800"
OtherSurrogate == "\\uD801"
ReplacementCharacter == "\\uFFFD"

\* new TextEncoder().encode(content): UTF-8, in which an unpaired surrogate
\* is encoded as U+FFFD.  Every other character stands for its own bytes.
encode(content) ==
    [i \in 1..Len(content) |->
        IF content[i] \in {HighSurrogate, OtherSurrogate}
        THEN ReplacementCharacter
        ELSE content[i]]

\* computeHash: the SHA-256 digest of the encoded content, in hexadecimal.
\* SHA-256 is taken to be free of collisions: a digest stands as the bytes
\* it was computed from.
computeHash(content) == encode(content)

\* References to the objects of the heap, named after the place that made
\* them: the entry stored under a key, or the result given to a caller.
EntryRef(key, index) == [site |-> "entry", owner |-> key, index |-> index]
ResultRef(caller, index) == [site |-> "result", owner |-> <<caller>>, index |-> index]

Range(s) == {s[i] : i \in 1..Len(s)}

Restrict(f, S) == [x \in S \cap DOMAIN f |-> f[x]]

\* The value of the Chunk object at a reference, and of a list of them.
ChunkValue(objs, arrays, ref) ==
    [objs[ref] EXCEPT !.contributingSegmentIds = arrays[@]]

ChunkValues(objs, arrays, refs) ==
    [i \in 1..Len(refs) |-> ChunkValue(objs, arrays, refs[i])]

\* The objects still referenced from the cache or from a caller's result;
\* the others are garbage.
Reachable(entries, results) ==
    UNION {Range(e.chunks) : e \in Range(entries)}
    \cup UNION {Range(results[c]) : c \in ChunkCallers}

LiveObjs(objs, entries, results) == Restrict(objs, Reachable(entries, results))

LiveArrays(objs, arrays, entries, results) ==
    Restrict(arrays, {objs[r].contributingSegmentIds :
                         r \in Reachable(entries, results) \cap DOMAIN objs})

\* this.cache.get(contentHash): the entry, as a set of at most one.
CacheGet(entries, key) == {e \in Range(entries) : e.key = key}

\* this.cache.set(contentHash, entry): a key already in the Map keeps its
\* place in the insertion order, a new key goes last.
MapSet(entries, entry) ==
    IF CacheGet(entries, entry.key) # {}
    THEN [i \in 1..Len(entries) |->
             IF entries[i].key = entry.key THEN entry ELSE entries[i]]
    ELSE Append(entries, entry)

\* now - entry.timestamp > this.CACHE_TTL_MS
IsExpired(entry, now) == now - entry.timestamp > CACHE_TTL_MS

\* Array.prototype.sort by timestamp is stable: entry i comes before entry j
\* when it is older, or as old and inserted earlier.
SortsBefore(entries, i, j) ==
    \/ entries[i].timestamp < entries[j].timestamp
    \/ entries[i].timestamp = entries[j].timestamp /\ i < j

\* The size limit's removals (lines 126-134): the first deleteCount entries
\* of sortedEntries.
EvictOldest(entries) ==
    IF Len(entries) > MAX_CACHE_SIZE
    THEN LET deleteCount == Len(entries) - MAX_CACHE_SIZE
             deleted == {entries[j].key : j \in
                            {j \in 1..Len(entries) :
                                Cardinality({i \in 1..Len(entries) :
                                                SortsBefore(entries, i, j)})
                                < deleteCount}}
         IN SelectSeq(entries, LAMBDA e : e.key \notin deleted)
    ELSE entries

\* cleanupCache, with `now` the value its own Date.now() reads.
cleanupCache(entries, now) ==
    EvictOldest(SelectSeq(entries, LAMBDA e : ~IsExpired(e, now)))

\* [...chunk.contributingSegmentIds] on the hit path makes a new array for
\* the caller (before it, the same keeping the entry's array).
CopiedIdsKeepingArray(caller, index, ids) == ids

CopiedIds(caller, index, ids) == ResultRef(caller, index)

\* The Chunk objects of cachedEntry.chunks.map(...) (lines 153-160) and the
\* arrays made for them.
HitObjs(caller, entry) ==
    [r \in {ResultRef(caller, i) : i \in 1..Len(entry.chunks)} |->
        [chunkObjs[entry.chunks[r.index]] EXCEPT
            !.contributingSegmentIds = CopiedIds(caller, r.index, @)]]

HitArrays(caller, entry) ==
    [r \in {ResultRef(caller, i) : i \in 1..Len(entry.chunks)} |->
        idArrays[chunkObjs[entry.chunks[r.index]].contributingSegmentIds]]

\* The Chunk objects the assembly loop pushes (lines 185-233), each with its
\* own empty array, for the chunks `computed`.
ComputedObjs(caller, computed) ==
    [r \in {ResultRef(caller, i) : i \in 1..Len(computed)} |->
        [computed[r.index] EXCEPT !.contributingSegmentIds = r]]

ComputedArrays(caller, computed) ==
    [r \in {ResultRef(caller, i) : i \in 1..Len(computed)} |->
        computed[r.index].contributingSegmentIds]

\* The copies chunks.map(...) makes for the entry (lines 238-245).
EntryObjs(key, computed) ==
    [r \in {EntryRef(key, i) : i \in 1..Len(computed)} |->
        [computed[r.index] EXCEPT !.contributingSegmentIds = r]]

EntryArrays(key, computed) ==
    [r \in {EntryRef(key, i) : i \in 1..Len(computed)} |->
        computed[r.index].contributingSegmentIds]

\* The entry of this.cache.set(contentHash, {chunks, timestamp: now}).
CacheEntry(key, computed, now) ==
    [key |-> key,
     chunks |-> [i \in 1..Len(computed) |-> EntryRef(key, i)],
     timestamp |-> now]

\* textWithoutUrls.trim() is empty (line 170).
BlankWithoutUrls(content) ==
    IsBlank(removeUrls(removeFrontmatter(content).processedText))

\* The texts chunkMarkdown is called with: two plain ones, two that differ
\* in an unpaired surrogate, and one that is nothing but a URL.
CacheTexts ==
    { <<"a">>,
      <<"b", "c">>,
      <<"a", HighSurrogate>>,
      <<"a", OtherSurrogate>>,
      Url }

\* What a caller writes into a chunk it was given.
Overwritten == <<"#">>
PushedId == "pushed"

\* chunkMarkdown(text) up to `await this.computeHash(noteContent)`.
CallChunkMarkdown(c, text) ==
    /\ callPc[c] = "idle"
    /\ callPc' = [callPc EXCEPT ![c] = "hashing"]
    /\ callText' = [callText EXCEPT ![c] = text]
    /\ UNCHANGED <<cache, clock, chunkObjs, idArrays, callResult>>
    /\ UNCHANGED <<rpcVars, pluginVars, chunkVars, serviceVars>>

\* The hit path (lines 151-161): copies of the entry's chunks.
ReturnCopy(c, entry) ==
    /\ callPc' = [callPc EXCEPT ![c] = "hit"]
    /\ callResult' = [callResult EXCEPT
                         ![c] = [i \in 1..Len(entry.chunks) |-> ResultRef(c, i)]]
    /\ chunkObjs' = LiveObjs(HitObjs(c, entry) @@ chunkObjs, cache, callResult')
    /\ idArrays' = LiveArrays(chunkObjs', HitArrays(c, entry) @@ idArrays,
                              cache, callResult')
    /\ UNCHANGED <<cache, clock, callText>>

\* The return of line 171: nothing is stored and cleanupCache is not called.
ReturnEmpty(c) ==
    /\ callPc' = [callPc EXCEPT ![c] = "miss"]
    /\ callResult' = [callResult EXCEPT ![c] = <<>>]
    /\ UNCHANGED <<cache, clock, chunkObjs, idArrays, callText>>

\* Lines 174-251: the chunks are computed, copies of them are stored with
\* the timestamp `now`, cleanupCache runs with the time it reads itself
\* (`later`), and the computed chunks are returned.
StoreAndReturn(c, contentHash, now, later) ==
    LET computed == chunkMarkdown(callText[c])
        objs == ComputedObjs(c, computed) @@ EntryObjs(contentHash, computed)
                @@ chunkObjs
        arrays == ComputedArrays(c, computed) @@ EntryArrays(contentHash, computed)
                  @@ idArrays
    IN /\ cache' = cleanupCache(MapSet(cache, CacheEntry(contentHash, computed, now)),
                                later)
       /\ clock' = later
       /\ callPc' = [callPc EXCEPT ![c] = "miss"]
       /\ callResult' = [callResult EXCEPT
                            ![c] = [i \in 1..Len(computed) |-> ResultRef(c, i)]]
       /\ chunkObjs' = LiveObjs(objs, cache', callResult')
       /\ idArrays' = LiveArrays(objs, arrays, cache', callResult')
       /\ UNCHANGED callText

\* chunkMarkdown from the resolution of computeHash to its return.
ResumeChunkMarkdown(c) ==
    /\ callPc[c] = "hashing"
    /\ LET contentHash == computeHash(callText[c])
           cachedEntry == CacheGet(cache, contentHash)
           now == clock
       IN IF cachedEntry # {} /\ \A e \in cachedEntry : ~IsExpired(e, now)
          THEN \E e \in cachedEntry : ReturnCopy(c, e)
          ELSE IF BlankWithoutUrls(callText[c])
               THEN ReturnEmpty(c)
               ELSE \E later \in {now, now + 1} :
                       /\ later <= MaxClock
                       /\ StoreAndReturn(c, contentHash, now, later)
    /\ UNCHANGED <<rpcVars, pluginVars, chunkVars, serviceVars>>

\* The caller writes into chunk i of the list it was given: it replaces the
\* text and pushes an id to contributingSegmentIds.
MutateChunk(c, i) ==
    /\ callPc[c] \in {"hit", "miss"}
    /\ i \in 1..Len(callResult[c])
    /\ chunkObjs[callResult[c][i]].text # Overwritten
    /\ chunkObjs' = [chunkObjs EXCEPT ![callResult[c][i]].text = Overwritten]
    /\ idArrays' = [idArrays EXCEPT
                       ![chunkObjs[callResult[c][i]].contributingSegmentIds] =
                           Append(@, PushedId)]
    /\ UNCHANGED <<cache, clock, callPc, callText, callResult>>
    /\ UNCHANGED <<rpcVars, pluginVars, chunkVars, serviceVars>>

\* The caller drops the list it was given.
Release(c) ==
    /\ callPc[c] \in {"hit", "miss"}
    /\ callPc' = [callPc EXCEPT ![c] = "idle"]
    /\ callText' = [callText EXCEPT ![c] = <<>>]
    /\ callResult' = [callResult EXCEPT ![c] = <<>>]
    /\ chunkObjs' = LiveObjs(chunkObjs, cache, callResult')
    /\ idArrays' = LiveArrays(chunkObjs, idArrays, cache, callResult')
    /\ UNCHANGED <<cache, clock>>
    /\ UNCHANGED <<rpcVars, pluginVars, chunkVars, serviceVars>>

\* Time passes.
Tick ==
    /\ clock < MaxClock
    /\ clock' = clock + 1
    /\ UNCHANGED <<cache, chunkObjs, idArrays, callPc, callText, callResult>>
    /\ UNCHANGED <<rpcVars, pluginVars, chunkVars, serviceVars>>

\* MarkdownChunker.clearCache()
ClearCache ==
    /\ cache' = <<>>
    /\ chunkObjs' = LiveObjs(chunkObjs, cache', callResult)
    /\ idArrays' = LiveArrays(chunkObjs, idArrays, cache', callResult)
    /\ UNCHANGED <<clock, callPc, callText, callResult>>
    /\ UNCHANGED <<rpcVars, pluginVars, chunkVars, serviceVars>>

\* The cache before its first use, and no call in progress.
CacheIdle ==
    /\ cache = <<>>
    /\ clock = 0
    /\ chunkObjs = <<>>
    /\ idArrays = <<>>
    /\ callPc = [c \in ChunkCallers |-> "idle"]
    /\ callText = [c \in ChunkCallers |-> <<>>]
    /\ callResult = [c \in ChunkCallers |-> <<>>]

NextCache ==
    \/ \E c \in ChunkCallers, text \in CacheTexts : CallChunkMarkdown(c, text)
    \/ \E c \in ChunkCallers : ResumeChunkMarkdown(c)
    \/ \E c \in ChunkCallers : \E i \in 1..Len(callResult[c]) : MutateChunk(c, i)
    \/ \E c \in ChunkCallers : Release(c)
    \/ Tick
    \/ ClearCache

\* A call of chunkText, as NoteVectorService (with the file's path) and
\* VectorizationService (without a path) make it, on an empty cache:
\* chunkMarkdown, when it is called and gets past line 172, stores what it
\* computed.
ChunkText(path) ==
    /\ chunkPc = "ready"
    /\ cache = <<>>
    /\ chunkPc' = "done"
    /\ filePath' = path
    /\ chunksFromMarkdown' = IF IsBlank(noteContent) THEN <<>> ELSE chunkMarkdown(noteContent)
    /\ chunkInfos' = chunkText(chunksFromMarkdown', path)
    /\ IF IsBlank(noteContent) \/ BlankWithoutUrls(noteContent)
       THEN UNCHANGED <<cache, chunkObjs, idArrays>>
       ELSE LET contentHash == computeHash(noteContent)
                computed == chunksFromMarkdown'
            IN /\ cache' = cleanupCache(
                               MapSet(cache, CacheEntry(contentHash, computed, clock)),
                               clock)
               /\ chunkObjs' = LiveObjs(EntryObjs(contentHash, computed) @@ chunkObjs,
                                        cache', callResult)
               /\ idArrays' = LiveArrays(chunkObjs',
                                         EntryArrays(contentHash, computed) @@ idArrays,
                                         cache', callResult)
    /\ UNCHANGED <<noteContent, lineBreakSplits>>
    /\ UNCHANGED <<clock, callPc, callText, callResult>>
    /\ UNCHANGED <<rpcVars, pluginVars, serviceVars>>

\* No chunking in progress: the state of this part in the other parts'
\* specifications.
ChunkIdle ==
    /\ noteContent = <<>>
    /\ filePath = NoPath
    /\ lineBreakSplits = FALSE
    /\ chunkPc = "ready"
    /\ chunksFromMarkdown = <<>>
    /\ chunkInfos = <<>>

\* A document about to be chunked.
DocumentGiven ==
    /\ noteContent \in Documents
    /\ filePath = NoPath
    /\ lineBreakSplits \in BOOLEAN
    /\ chunkPc = "ready"
    /\ chunksFromMarkdown = <<>>
    /\ chunkInfos = <<>>

NextChunk == \E path \in Paths : ChunkText(path)

(***************************************************************************)
(* Part 5: indexing every note.                                            *)
(*                                                                         *)
(* VectorizationService.vectorizeAllNotes (core/services/                  *)
(* VectorizationService.ts) and CommandHandler.vectorizeAllNotes           *)
(* (commands.ts), which main.ts calls from the "Vectorize all notes"       *)
(* command.  Each suspends at every await; an action is a run from one     *)
(* await to the next.  The vault's read and the worker's calls are the     *)
(* environment: each may resolve or reject.                                *)
(***************************************************************************)
FileNames == <<"p", "q", "r", "s", "t">>
FilePath(i) == <<FileNames[i], ".", "m", "d">>

\* The contents of the vault's files: blank, one chunk, nothing but a URL
\* (not blank, no chunk), two lines that make two chunks.
BlankText == <<" ", "\n">>
VaultTexts == {BlankText, <<"a">>, Url, <<"b", "c", ".", "\n", "b", "c", ".">>}

Vaults ==
    UNION {[1..n -> VaultTexts] : n \in 0..MaxFiles}

\* ---- VectorizationService.vectorizeAllNotes

\* chunkInfos.map((chunk) => ({filePath: file.path, ...})) (before it, the
\* same with the chunk's own metadata.filePath).
ChunkRecordOfChunkPath(file, chunk) ==
    [filePath |-> chunk.filePath, chunkOffsetStart |-> chunk.startPosition,
     chunkOffsetEnd |-> chunk.endPosition, text |-> chunk.chunk]

ChunkRecord(file, chunk) ==
    [filePath |-> file.path, chunkOffsetStart |-> chunk.startPosition,
     chunkOffsetEnd |-> chunk.endPosition, text |-> chunk.chunk]

chunksWithFilePath(file, infos) ==
    [k \in 1..Len(infos) |-> ChunkRecord(file, infos[k])]

\* if (onProgress) onProgress(message, isOverallProgress)
Notified(prog, path, message, isOverallProgress) ==
    IF onProgress
    THEN Append(prog, [path |-> path, message |-> message,
                       isOverallProgress |-> isOverallProgress])
    ELSE prog

\* if (allChunksToProcess.length > 0) (before it, the same with >= 0).
ShouldStoreEvenNothing(chunks) == Len(chunks) >= 0

ShouldStore(chunks) == Len(chunks) > 0

\* The loop's next iteration, up to its await; after the last file, lines
\* 82-99 up to the await of vectorizeAndStoreChunks or to the return.
ContinueAt(nextIndex, chunks, prog) ==
    /\ fileIndex' = nextIndex
    /\ allChunksToProcess' = chunks
    /\ IF nextIndex < Len(vaultFiles)
       THEN /\ indexPc' = "reading"
            /\ progress' = prog
            /\ UNCHANGED storeCalls
       ELSE IF ShouldStore(chunks)
            THEN /\ indexPc' = "storing"
                 /\ progress' = Notified(prog, NoPath, "Vectorizing and storing", TRUE)
                 /\ storeCalls' = Append(storeCalls, chunks)
            ELSE /\ indexPc' = "returned"
                 /\ progress' = Notified(prog, NoPath, "No new vectors to save", TRUE)
                 /\ UNCHANGED storeCalls
    /\ UNCHANGED <<storeReply, totalVectorsProcessed>>

VectorizeAllNotes ==
    /\ indexPc = "idle"
    /\ cmdPc = "idle"
    /\ ContinueAt(0, <<>>, Notified(progress, NoPath, "Starting vectorization", TRUE))
    /\ UNCHANGED <<vaultFiles, onProgress, logged>>
    /\ UNCHANGED <<cmdPc, cmdFileIndex, allItems, batchStart, vectorizeCalls, cmdResults>>
    /\ UNCHANGED <<rpcVars, pluginVars, chunkVars, cacheVars, retrievalVars, assemblyVars,
                 laterVars>>

\* cachedRead rejects, or chunkText throws: the catch of lines 68-79.
FileFails(file) ==
    /\ logged' = Append(logged, [path |-> file.path, line |-> "Failed to process file"])
    /\ ContinueAt(fileIndex + 1, allChunksToProcess,
                  Notified(progress, file.path, "Skipping file due to error", FALSE))

\* cachedRead resolves and nothing throws: lines 40-67.
FileRead(file) ==
    IF IsBlank(file.content)
    THEN /\ logged' = Append(logged, [path |-> file.path, line |-> "Skipping empty file"])
         /\ ContinueAt(fileIndex + 1, allChunksToProcess,
                       Notified(progress, file.path, "skipped empty", FALSE))
    ELSE LET infos == chunkText(chunkMarkdown(file.content), NoPath)
         IN IF Len(infos) = 0
            THEN /\ logged' = Append(logged,
                                     [path |-> file.path, line |-> "No chunks generated"])
                 /\ ContinueAt(fileIndex + 1, allChunksToProcess,
                               Notified(progress, file.path, "no chunks", FALSE))
            ELSE /\ UNCHANGED logged
                 /\ ContinueAt(fileIndex + 1,
                               allChunksToProcess \o chunksWithFilePath(file, infos),
                               Notified(progress, file.path, "Processing file", FALSE))

ProcessFile(outcome) ==
    /\ indexPc = "reading"
    /\ LET file == vaultFiles[fileIndex + 1]
       IN CASE outcome = "read rejects" -> FileFails(file)
            [] outcome = "chunking throws" -> /\ ~IsBlank(file.content)
                                              /\ FileFails(file)
            [] outcome = "completes" -> FileRead(file)
    /\ UNCHANGED <<vaultFiles, onProgress>>
    /\ UNCHANGED <<cmdPc, cmdFileIndex, allItems, batchStart, vectorizeCalls, cmdResults>>
    /\ UNCHANGED <<rpcVars, pluginVars, chunkVars, cacheVars, retrievalVars, assemblyVars,
                 laterVars>>

\* totalVectorsProcessed = result.count (before it, the number of records
\* sent).
CountOfSent(count, chunks) == Len(chunks)

CountOfResult(count, chunks) == count

\* vectorizeAndStoreChunks resolves with {count}: lines 91-99.
StoreResolves(count) ==
    /\ indexPc = "storing"
    /\ storeReply' = [status |-> "resolved", count |-> count]
    /\ totalVectorsProcessed' = CountOfResult(count, allChunksToProcess)
    /\ logged' = Append(logged, [path |-> NoPath, line |-> "Upserted vectors in batch"])
    /\ indexPc' = "returned"
    /\ UNCHANGED <<vaultFiles, onProgress, fileIndex, allChunksToProcess, progress,
                   storeCalls>>
    /\ UNCHANGED <<cmdPc, cmdFileIndex, allItems, batchStart, vectorizeCalls, cmdResults>>
    /\ UNCHANGED <<rpcVars, pluginVars, chunkVars, cacheVars, retrievalVars, assemblyVars,
                 laterVars>>

\* vectorizeAndStoreChunks rejects: nothing catches it, the run rejects.
StoreRejects ==
    /\ indexPc = "storing"
    /\ storeReply' = [status |-> "rejected", count |-> 0]
    /\ indexPc' = "threw"
    /\ UNCHANGED <<vaultFiles, onProgress, fileIndex, allChunksToProcess, logged,
                   progress, storeCalls, totalVectorsProcessed>>
    /\ UNCHANGED <<cmdPc, cmdFileIndex, allItems, batchStart, vectorizeCalls, cmdResults>>
    /\ UNCHANGED <<rpcVars, pluginVars, chunkVars, cacheVars, retrievalVars, assemblyVars,
                 laterVars>>

\* ---- CommandHandler.vectorizeAllNotes

\* text.split(/\n+/)
RECURSIVE SplitOnLineBreaks(_)
SplitOnLineBreaks(text) ==
    LET breaks == {k \in 1..Len(text) : text[k] = "\n"}
    IN IF breaks = {} THEN <<text>>
       ELSE LET first == MinOf(breaks)
                after == MinOf({k \in (first + 1)..(Len(text) + 1) :
                                   k = Len(text) + 1 \/ text[k] # "\n"})
            IN <<SubSeq(text, 1, first - 1)>>
               \o SplitOnLineBreaks(SubSeq(text, after, Len(text)))

\* utils.ts: split, trim each piece, keep the non-empty ones.
splitTextToSentences(text) ==
    LET pieces == SplitOnLineBreaks(text)
        trimmed == [k \in 1..Len(pieces) |-> TrimmedSlice(pieces[k])]
    IN SelectSeq(trimmed, LAMBDA s : Len(s) > 0)

ItemsOf(file) ==
    LET sentences == splitTextToSentences(file.content)
    IN [k \in 1..Len(sentences) |-> [file |-> file.path, sentence |-> sentences[k]]]

\* allItems.slice(i, i + batchSize)
BatchItems(items, i) ==
    SubSeq(items, i + 1, IF i + BatchSize < Len(items) THEN i + BatchSize ELSE Len(items))

BatchSentences(items, i) ==
    LET batch == BatchItems(items, i)
    IN [k \in 1..Len(batch) |-> batch[k].sentence]

\* The vector the vectorizer gives for a sentence.
VectorOf(sentence) == <<"vector of", sentence>>

CmdUnchanged ==
    /\ UNCHANGED <<vaultFiles, onProgress, indexPc, fileIndex, allChunksToProcess,
                   logged, progress, storeCalls, storeReply, totalVectorsProcessed>>
    /\ UNCHANGED <<rpcVars, pluginVars, chunkVars, cacheVars, retrievalVars, assemblyVars,
                 laterVars>>

\* Lines 57-64, up to the first await of cachedRead.
CommandVectorizeAllNotes ==
    /\ cmdPc = "idle"
    /\ indexPc = "idle"
    /\ cmdPc' = IF Len(vaultFiles) = 0 THEN "returned" ELSE "reading"
    /\ UNCHANGED <<cmdFileIndex, allItems, batchStart, vectorizeCalls, cmdResults>>
    /\ CmdUnchanged

\* cachedRead rejects: the catch of lines 74-78 returns [].
CommandReadRejects ==
    /\ cmdPc = "reading"
    /\ cmdPc' = "returned"
    /\ UNCHANGED <<cmdFileIndex, allItems, batchStart, vectorizeCalls, cmdResults>>
    /\ CmdUnchanged

\* cachedRead resolves: the rest of the read loop, and after the last file
\* lines 80-103 up to the first await of vectorizeSentences.
CommandReadResolves ==
    /\ cmdPc = "reading"
    /\ LET items == allItems \o ItemsOf(vaultFiles[cmdFileIndex + 1])
       IN /\ allItems' = items
          /\ cmdFileIndex' = cmdFileIndex + 1
          /\ IF cmdFileIndex + 1 < Len(vaultFiles)
             THEN /\ cmdPc' = "reading"
                  /\ UNCHANGED vectorizeCalls
             ELSE IF Len(items) = 0
                  THEN /\ cmdPc' = "returned"
                       /\ UNCHANGED vectorizeCalls
                  ELSE /\ cmdPc' = "vectorizing"
                       /\ vectorizeCalls' = Append(vectorizeCalls, BatchSentences(items, 0))
    /\ UNCHANGED <<batchStart, cmdResults>>
    /\ CmdUnchanged

\* vectorizeSentences resolves: lines 105-130, and the next batch's call or
\* the return of lines 132-141.
CommandBatchResolves ==
    /\ cmdPc = "vectorizing"
    /\ LET batch == BatchItems(allItems, batchStart)
       IN cmdResults' = cmdResults \o [k \in 1..Len(batch) |->
                                    [file |-> batch[k].file,
                                     vector |-> VectorOf(batch[k].sentence)]]
    /\ batchStart' = batchStart + BatchSize
    /\ IF batchStart + BatchSize < Len(allItems)
       THEN /\ cmdPc' = "vectorizing"
            /\ vectorizeCalls' = Append(vectorizeCalls,
                                        BatchSentences(allItems, batchStart + BatchSize))
       ELSE /\ cmdPc' = "returned"
            /\ UNCHANGED vectorizeCalls
    /\ UNCHANGED <<cmdFileIndex, allItems>>
    /\ CmdUnchanged

\* vectorizeSentences rejects: the catch of lines 142-149 returns the
\* results so far.
CommandBatchRejects ==
    /\ cmdPc = "vectorizing"
    /\ cmdPc' = "returned"
    /\ UNCHANGED <<cmdFileIndex, allItems, batchStart, vectorizeCalls, cmdResults>>
    /\ CmdUnchanged

\* No indexing in progress: the state of this part in the other parts'
\* specifications.
IndexIdle ==
    /\ indexPc = "idle"
    /\ fileIndex = 0
    /\ allChunksToProcess = <<>>
    /\ logged = <<>>
    /\ progress = <<>>
    /\ storeCalls = <<>>
    /\ storeReply = [status |-> "none", count |-> 0]
    /\ totalVectorsProcessed = 0
    /\ cmdPc = "idle"
    /\ cmdFileIndex = 0
    /\ allItems = <<>>
    /\ batchStart = 0
    /\ vectorizeCalls = <<>>
    /\ cmdResults = <<>>

\* A vault about to be indexed, with or without a progress callback.
VaultGiven ==
    /\ \E contents \in Vaults :
          vaultFiles = [i \in 1..Len(contents) |->
                           [path |-> FilePath(i), content |-> contents[i]]]
    /\ onProgress \in BOOLEAN
    /\ IndexIdle

NextIndex ==
    \/ VectorizeAllNotes
    \/ \E outcome \in {"read rejects", "chunking throws", "completes"} :
          ProcessFile(outcome)
    \/ \E count \in 0..Len(allChunksToProcess) : StoreResolves(count)
    \/ StoreRejects
    \/ CommandVectorizeAllNotes
    \/ CommandReadRejects
    \/ CommandReadResolves
    \/ CommandBatchResolves
    \/ CommandBatchRejects

(***************************************************************************)
(* Part 6: note vectors and related chunks.                                *)
(*                                                                         *)
(* NoteVectorService (core/services/NoteVectorService.ts) and the part of  *)
(* ViewManager that shows the chunks related to the active note            *)
(* (core/handlers/CommandRegistrar.ts, lines 404-507).  The worker behind  *)
(* IntegratedWorkerProxy and isPathIgnoredByUserFilters are not among the  *)
(* repository's files: the worker's calls resolve or reject, a query       *)
(* gives the nearest stored chunks outside the excluded paths, and the     *)
(* paths the user's filters ignore are a set.  One operation runs at a     *)
(* time.                                                                   *)
(***************************************************************************)
NotePaths == {FilePath(1), FilePath(2), FilePath(3)}

\* metadataCache: the first note links to the second, the third links to
\* the first.
OutgoingLinks(path) == IF path = FilePath(1) THEN {FilePath(2)} ELSE {}
Backlinks(path) == IF path = FilePath(1) THEN {FilePath(3)} ELSE {}

\* number[] | null
NullVector == [kind |-> "null", value |-> <<>>]
Vector(v) == [kind |-> "vector", value |-> v]

\* The vector averageVectors gives for a list of vectors.
AverageOf(vectors) == <<"average of", vectors>>

\* The vectors stored for a path (one chunk each).
StoredVectors(path) == <<VectorOf(path)>>

\* The store's chunks in the order of their distance to a vector, nearest
\* first.
StoredOrder == <<FilePath(1), FilePath(2), FilePath(3)>>

FirstOf(s, n) == SubSeq(s, 1, IF n < Len(s) THEN n ELSE Len(s))

\* query(vector, limit, {excludeFilePaths?}): the nearest `limit` stored
\* chunks whose path is not excluded.
QueryResults(stored, limit, options) ==
    LET allowed == SelectSeq(StoredOrder,
                             LAMBDA p : p \in stored /\ p \notin options.excludeFilePaths)
        nearest == FirstOf(allowed, limit)
    IN [k \in 1..Len(nearest) |-> [file_path |-> nearest[k], distance |-> k - 1]]

NoResult == [status |-> "none", kind |-> "none", value |-> <<>>]
Returned(kind, value) == [status |-> "returned", kind |-> kind, value |-> value]
Threw == [status |-> "threw", kind |-> "error", value |-> <<>>]

WorkerCall(type, args) == [type |-> type, args |-> args, reply |-> "pending"]

\* The last call's reply.
Replied(calls, reply) == [calls EXCEPT ![Len(calls)].reply = reply]

RetrievalIdleService == svcOp = "none" /\ viewPc = "idle"

\* ---- NoteVectorService.getNoteVector

\* Lines 17-18, up to the await of cachedRead.
GetNoteVector(file, content) ==
    /\ RetrievalIdleService
    /\ svcOp' = "getNoteVector"
    /\ svcPc' = "reading"
    /\ svcArgs' = [file |-> file, content |-> content, vectors |-> <<>>]
    /\ UNCHANGED <<settings, ignoredPaths, storedPaths, svcResult, workerCalls, viewPc,
                   activeFile, shownResults>>
    /\ UNCHANGED <<rpcVars, pluginVars, chunkVars, cacheVars, indexVars, assemblyVars,
                 laterVars>>

\* cachedRead rejects (line 18 is outside the try), or resolves: lines
\* 19-43 up to the await of vectorizeSentences.
GetNoteVectorRead(resolves) ==
    /\ svcOp = "getNoteVector"
    /\ svcPc = "reading"
    /\ IF ~resolves
       THEN /\ svcPc' = "threw"
            /\ svcResult' = Threw
            /\ UNCHANGED workerCalls
       ELSE IF IsBlank(svcArgs.content)
       THEN /\ svcPc' = "returned"
            /\ svcResult' = Returned("vector", NullVector)
            /\ UNCHANGED workerCalls
       ELSE LET infos == chunkText(chunkMarkdown(svcArgs.content), svcArgs.file)
                chunkTexts == [k \in 1..Len(infos) |-> infos[k].chunk]
            IN IF Len(infos) = 0
               THEN /\ svcPc' = "returned"
                    /\ svcResult' = Returned("vector", NullVector)
                    /\ UNCHANGED workerCalls
               ELSE /\ svcPc' = "embedding"
                    /\ workerCalls' = Append(workerCalls,
                                             WorkerCall("vectorizeSentences", chunkTexts))
                    /\ UNCHANGED svcResult
    /\ UNCHANGED <<settings, ignoredPaths, storedPaths, svcOp, svcArgs, viewPc,
                   activeFile, shownResults>>
    /\ UNCHANGED <<rpcVars, pluginVars, chunkVars, cacheVars, indexVars, assemblyVars,
                 laterVars>>

\* if (!chunkVectors || chunkVectors.length === 0) (before it, the same
\* without the test of the length).
NoVectorsUnlessNull(vectors) == vectors.kind = "null"

NoVectors(vectors) == vectors.kind = "null" \/ Len(vectors.value) = 0

\* The vectors a call resolved with: a list, an empty list, or nothing.
VectorLists(vectors) ==
    {[kind |-> "list", value |-> vectors], [kind |-> "list", value |-> <<>>],
     [kind |-> "null", value |-> <<>>]}

\* The rest of a try block once the chunk vectors are there (lines 44-52,
\* lines 82-94), up to the await of averageVectors.
AverageOrNull(chunkVectors, calls) ==
    IF NoVectors(chunkVectors)
    THEN /\ svcPc' = "returned"
         /\ svcResult' = Returned("vector", NullVector)
         /\ workerCalls' = calls
         /\ UNCHANGED svcArgs
    ELSE /\ svcPc' = "averaging"
         /\ workerCalls' = Append(calls, WorkerCall("averageVectors", chunkVectors.value))
         /\ svcArgs' = [svcArgs EXCEPT !.vectors = chunkVectors.value]
         /\ UNCHANGED svcResult

\* catch (error) { ...; return null } of lines 54-60 and 96-102.
CaughtReturnsNull ==
    /\ svcPc' = "returned"
    /\ svcResult' = Returned("vector", NullVector)
    /\ workerCalls' = Replied(workerCalls, "rejected")
    /\ UNCHANGED svcArgs

\* vectorizeSentences resolves or rejects.
EmbedReplies(resolves) ==
    /\ svcOp = "getNoteVector"
    /\ svcPc = "embedding"
    /\ IF resolves
       THEN \E chunkVectors \in
                 VectorLists([k \in 1..Len(workerCalls[Len(workerCalls)].args) |->
                                 VectorOf(workerCalls[Len(workerCalls)].args[k])]) :
               AverageOrNull(chunkVectors, Replied(workerCalls, "resolved"))
       ELSE CaughtReturnsNull
    /\ UNCHANGED <<settings, ignoredPaths, storedPaths, svcOp, viewPc, activeFile,
                   shownResults>>
    /\ UNCHANGED <<rpcVars, pluginVars, chunkVars, cacheVars, indexVars, assemblyVars,
                 laterVars>>

\* averageVectors resolves or rejects, in getNoteVector (lines 50-53) and
\* in getNoteVectorFromDB (lines 92-95).
AverageReplies(resolves) ==
    /\ svcOp \in {"getNoteVector", "getNoteVectorFromDB"}
    /\ svcPc = "averaging"
    /\ IF resolves
       THEN /\ svcPc' = "returned"
            /\ svcResult' = Returned("vector", Vector(AverageOf(svcArgs.vectors)))
            /\ workerCalls' = Replied(workerCalls, "resolved")
            /\ UNCHANGED svcArgs
       ELSE CaughtReturnsNull
    /\ UNCHANGED <<settings, ignoredPaths, storedPaths, svcOp, viewPc, activeFile,
                   shownResults>>
    /\ UNCHANGED <<rpcVars, pluginVars, chunkVars, cacheVars, indexVars, assemblyVars,
                 laterVars>>

\* ---- NoteVectorService.getNoteVectorFromDB

\* Lines 63-74, up to the await of getVectorsByFilePath.
CallGetNoteVectorFromDB(file, inVault) ==
    /\ svcOp' = "getNoteVectorFromDB"
    /\ svcArgs' = [file |-> file, inVault |-> inVault, vectors |-> <<>>]
    /\ IF ~inVault
       THEN /\ svcPc' = "returned"
            /\ svcResult' = Returned("vector", NullVector)
            /\ UNCHANGED workerCalls
       ELSE /\ svcPc' = "fetching"
            /\ svcResult' = NoResult
            /\ workerCalls' = Append(workerCalls, WorkerCall("getVectorsByFilePath", file))

GetNoteVectorFromDB(file, inVault) ==
    /\ RetrievalIdleService
    /\ CallGetNoteVectorFromDB(file, inVault)
    /\ UNCHANGED <<settings, ignoredPaths, storedPaths, viewPc, activeFile, shownResults>>
    /\ UNCHANGED <<rpcVars, pluginVars, chunkVars, cacheVars, indexVars, assemblyVars,
                 laterVars>>

\* getVectorsByFilePath resolves, with the path's vectors or with none, or
\* rejects.
FetchReplies(resolves) ==
    /\ svcOp = "getNoteVectorFromDB"
    /\ svcPc = "fetching"
    /\ IF resolves
       THEN IF svcArgs.file \in storedPaths
            THEN AverageOrNull([kind |-> "list", value |-> StoredVectors(svcArgs.file)],
                               Replied(workerCalls, "resolved"))
            ELSE \E none \in {[kind |-> "list", value |-> <<>>],
                              [kind |-> "null", value |-> <<>>]} :
                    AverageOrNull(none, Replied(workerCalls, "resolved"))
       ELSE CaughtReturnsNull
    /\ UNCHANGED <<settings, ignoredPaths, storedPaths, svcOp, viewPc, activeFile,
                   shownResults>>
    /\ UNCHANGED <<rpcVars, pluginVars, chunkVars, cacheVars, indexVars, assemblyVars,
                 laterVars>>

\* ---- NoteVectorService.findSimilarChunks

\* if (!noteVector || noteVector.length === 0) (before it, the same
\* without the test of the length).
NoNoteVectorUnlessNull(noteVector) == noteVector.kind = "null"

NoNoteVector(noteVector) == noteVector.kind = "null" \/ Len(noteVector.value) = 0

\* excludeFilePaths.length > 0 ? {excludeFilePaths} : undefined
SearchOptions(excludeFilePaths) ==
    [given |-> excludeFilePaths # {}, excludeFilePaths |-> excludeFilePaths]

\* Lines 105-120, up to the await of searchSimilarByVector.
CallFindSimilarChunks(noteVector, limit, excludeFilePaths) ==
    /\ svcOp' = "findSimilarChunks"
    /\ svcArgs' = [noteVector |-> noteVector, limit |-> limit,
                   excludeFilePaths |-> excludeFilePaths]
    /\ IF NoNoteVector(noteVector)
       THEN /\ svcPc' = "returned"
            /\ svcResult' = Returned("results", <<>>)
            /\ UNCHANGED workerCalls
       ELSE /\ svcPc' = "searching"
            /\ svcResult' = NoResult
            /\ workerCalls' = Append(workerCalls,
                                     WorkerCall("searchSimilarByVector",
                                                [vector |-> noteVector.value,
                                                 limit |-> limit,
                                                 options |-> SearchOptions(excludeFilePaths)]))

FindSimilarChunks(noteVector, limit, excludeFilePaths) ==
    /\ RetrievalIdleService
    /\ CallFindSimilarChunks(noteVector, limit, excludeFilePaths)
    /\ UNCHANGED <<settings, ignoredPaths, storedPaths, viewPc, activeFile, shownResults>>
    /\ UNCHANGED <<rpcVars, pluginVars, chunkVars, cacheVars, indexVars, assemblyVars,
                 laterVars>>

\* searchSimilarByVector resolves (line 121) or rejects (lines 122-128:
\* logged and thrown again).
SearchReplies(resolves) ==
    /\ svcOp = "findSimilarChunks"
    /\ svcPc = "searching"
    /\ IF resolves
       THEN LET call == workerCalls[Len(workerCalls)]
            IN /\ svcPc' = "returned"
               /\ svcResult' = Returned("results",
                                        QueryResults(storedPaths, call.args.limit,
                                                     call.args.options))
               /\ workerCalls' = Replied(workerCalls, "resolved")
       ELSE /\ svcPc' = "threw"
            /\ svcResult' = Threw
            /\ workerCalls' = Replied(workerCalls, "rejected")
    /\ UNCHANGED <<settings, ignoredPaths, storedPaths, svcOp, svcArgs, viewPc,
                   activeFile, shownResults>>
    /\ UNCHANGED <<rpcVars, pluginVars, chunkVars, cacheVars, indexVars, assemblyVars,
                 laterVars>>

\* ---- ViewManager: the chunks related to the active note

isPathIgnoredByUserFilters(path) == path \in ignoredPaths

\* new Set([activeFile.path])
OwnPath(file) == {file}

buildExcludeFilePaths(file) ==
    OwnPath(file)
    \cup (IF settings.excludeOutgoingLinksFromRelatedChunks
          THEN OutgoingLinks(file) ELSE {})
    \cup (IF settings.excludeBacklinksFromRelatedChunks THEN Backlinks(file) ELSE {})

activeFileIgnored(file) ==
    settings.enableUserIgnoreFilters /\ isPathIgnoredByUserFilters(file)

\* Lines 404-411 and 424-429, up to getNoteVectorFromDB's await.
ProcessMarkdownFile(file, inVault) ==
    /\ RetrievalIdleService
    /\ activeFile' = file
    /\ viewPc' = "getting vector"
    /\ CallGetNoteVectorFromDB(file, inVault)
    /\ UNCHANGED <<settings, ignoredPaths, storedPaths, shownResults>>
    /\ UNCHANGED <<rpcVars, pluginVars, chunkVars, cacheVars, indexVars, assemblyVars,
                 laterVars>>

\* getNoteVectorFromDB has returned: lines 413-418, and processNoteVector
\* (lines 444-454) up to findSimilarChunks' await.
ProcessNoteVector ==
    /\ viewPc = "getting vector"
    /\ svcPc = "returned"
    /\ IF svcResult.value.kind = "null"
       THEN /\ viewPc' = "missing"
            /\ shownResults' = <<>>
            /\ UNCHANGED <<svcOp, svcPc, svcArgs, svcResult, workerCalls>>
       ELSE /\ viewPc' = "searching"
            /\ CallFindSimilarChunks(svcResult.value, RelatedChunksResultLimit,
                                     IF activeFileIgnored(activeFile) THEN {}
                                     ELSE buildExcludeFilePaths(activeFile))
            /\ UNCHANGED shownResults
    /\ UNCHANGED <<settings, ignoredPaths, storedPaths, activeFile>>
    /\ UNCHANGED <<rpcVars, pluginVars, chunkVars, cacheVars, indexVars, assemblyVars,
                 laterVars>>

\* findSimilarChunks has returned or thrown: lines 456-469, or the catch of
\* lines 419-421.
ShowRelatedChunks ==
    /\ viewPc = "searching"
    /\ svcPc \in {"returned", "threw"}
    /\ IF svcPc = "threw"
       THEN /\ viewPc' = "error"
            /\ shownResults' = <<>>
       ELSE LET searchResults == svcResult.value
                shouldFilterIgnored ==
                    settings.enableUserIgnoreFilters /\ ~activeFileIgnored(activeFile)
            IN /\ viewPc' = "shown"
               /\ shownResults' =
                     IF shouldFilterIgnored
                     THEN SelectSeq(searchResults,
                                    LAMBDA r : ~isPathIgnoredByUserFilters(r.file_path))
                     ELSE searchResults
    /\ UNCHANGED <<settings, ignoredPaths, storedPaths, svcOp, svcPc, svcArgs, svcResult,
                   workerCalls, activeFile>>
    /\ UNCHANGED <<rpcVars, pluginVars, chunkVars, cacheVars, indexVars, assemblyVars,
                 laterVars>>

\* No operation in progress: the state of this part in the other parts'
\* specifications.
NoOperation ==
    /\ svcOp = "none"
    /\ svcPc = "idle"
    /\ svcArgs = <<>>
    /\ svcResult = NoResult
    /\ workerCalls = <<>>
    /\ viewPc = "idle"
    /\ activeFile = NoPath
    /\ shownResults = <<>>

RetrievalIdle ==
    /\ settings = [enableUserIgnoreFilters |-> TRUE,
                   excludeOutgoingLinksFromRelatedChunks |-> TRUE,
                   excludeBacklinksFromRelatedChunks |-> TRUE]
    /\ ignoredPaths = {}
    /\ storedPaths = {}
    /\ NoOperation

\* The settings, the user's ignore filters and the store an operation may
\* find.
RetrievalGiven ==
    /\ settings \in [enableUserIgnoreFilters : BOOLEAN,
                     excludeOutgoingLinksFromRelatedChunks : BOOLEAN,
                     excludeBacklinksFromRelatedChunks : BOOLEAN]
    /\ ignoredPaths \in SUBSET {FilePath(1), FilePath(2)}
    /\ storedPaths \in {{}, {FilePath(2), FilePath(3)}, NotePaths}
    /\ NoOperation

NoteVectors == {NullVector, Vector(<<>>), Vector(AverageOf(StoredVectors(FilePath(1))))}

NextRetrieval ==
    \/ \E content \in VaultTexts : GetNoteVector(FilePath(1), content)
    \/ \E resolves \in BOOLEAN : GetNoteVectorRead(resolves)
    \/ \E resolves \in BOOLEAN : EmbedReplies(resolves)
    \/ \E resolves \in BOOLEAN : AverageReplies(resolves)
    \/ \E inVault \in BOOLEAN : GetNoteVectorFromDB(FilePath(1), inVault)
    \/ \E resolves \in BOOLEAN : FetchReplies(resolves)
    \/ \E noteVector \in NoteVectors, excludeFilePaths \in {{}, {FilePath(1)}} :
          FindSimilarChunks(noteVector, RelatedChunksResultLimit, excludeFilePaths)
    \/ \E resolves \in BOOLEAN : SearchReplies(resolves)
    \/ \E inVault \in BOOLEAN : ProcessMarkdownFile(FilePath(1), inVault)
    \/ ProcessNoteVector
    \/ ShowRelatedChunks

(***************************************************************************)
(* Part 7: the assembly loop of chunkMarkdown (TextChunker.ts, lines       *)
(* 175-234) on its own, given any list of spans.  With the program's       *)
(* limits splitIntoSentences gives no span longer than MAX_SENTENCE_CHARS, *)
(* which is below MAX_CHUNK_SIZE, so the loop never meets a span as long   *)
(* as a chunk when it is reached through chunkMarkdown; here it is given   *)
(* spans of every length up to MAX_CHUNK_SIZE + 1.                         *)
(***************************************************************************)
SpanLetters == <<"a", "b", "c", "d", "e">>

\* Spans of the given lengths, in order and one character apart, the k-th
\* made of the k-th letter.
RECURSIVE SpansOfLengths(_, _, _)
SpansOfLengths(lengths, k, offset) ==
    IF k > Len(lengths) THEN <<>>
    ELSE <<[text |-> [i \in 1..lengths[k] |-> SpanLetters[k]],
            startOffset |-> offset,
            endOffset |-> offset + lengths[k]]>>
         \o SpansOfLengths(lengths, k + 1, offset + lengths[k] + 1)

SpanLists ==
    {SpansOfLengths(lengths, 1, 0) :
        lengths \in UNION {[1..n -> 1..(MAX_CHUNK_SIZE + 1)] : n \in 1..MaxSpans}}

\* Lines 175-234.
AssembleSpans ==
    /\ assemblyPc = "ready"
    /\ assemblyPc' = "done"
    /\ assembledChunks' = Assemble(AssemblyStart, spanList, spanShift)
    /\ UNCHANGED <<spanList, spanShift>>
    /\ UNCHANGED <<rpcVars, pluginVars, chunkVars, cacheVars, indexVars, retrievalVars,
                 laterVars>>

AssemblyIdle ==
    /\ spanList = <<>>
    /\ spanShift = 0
    /\ assemblyPc = "ready"
    /\ assembledChunks = <<>>

SpansGiven ==
    /\ spanList \in SpanLists
    /\ spanShift \in {0, 2}
    /\ assemblyPc = "ready"
    /\ assembledChunks = <<>>

NextAssemble == AssembleSpans

(***************************************************************************)
(* Part 8: splitSentenceByMaxLength (TextChunker.ts, lines 334-375) one    *)
(* iteration of its loop at a time, on a trimmed sentence longer than      *)
(* MAX_SENTENCE_CHARS, which is what splitIntoSentences calls it with.     *)
(***************************************************************************)
MaxSentenceLength == 6

SentenceTexts ==
    {s \in UNION {[1..n -> {"a", " ", "."}] :
                     n \in (MAX_SENTENCE_CHARS + 1)..MaxSentenceLength} :
        s[1] # " " /\ s[Len(s)] # " "}

EarlierUnchanged ==
    UNCHANGED <<rpcVars, pluginVars, chunkVars, cacheVars, indexVars, retrievalVars,
                assemblyVars>>

\* Lines 339-343: the entry, up to the loop's first test.
SplitSentenceByMaxLength ==
    /\ splitPc = "ready"
    /\ splitPc' = "loop"
    /\ UNCHANGED <<splitText, splitBase, splitCursor, splitSegments, splitIterations>>
    /\ EarlierUnchanged
    /\ UNCHANGED <<viewVars, providerVars>>

\* Lines 343-372: one run of the loop's body.
SplitIteration ==
    /\ splitPc = "loop"
    /\ splitCursor < Len(splitText)
    /\ \E segmentEnd \in {SegmentEnd(splitText, splitCursor)} :
          /\ splitSegments' = splitSegments
                                 \o SegmentSpans(splitText, splitBase, splitCursor,
                                                 segmentEnd)
          /\ splitCursor' = segmentEnd
    /\ splitIterations' = splitIterations + 1
    /\ UNCHANGED <<splitText, splitBase, splitPc>>
    /\ EarlierUnchanged
    /\ UNCHANGED <<viewVars, providerVars>>

\* Lines 343, 374: the loop's test fails and the segments are returned.
SplitReturns ==
    /\ splitPc = "loop"
    /\ splitCursor >= Len(splitText)
    /\ splitPc' = "returned"
    /\ UNCHANGED <<splitText, splitBase, splitCursor, splitSegments, splitIterations>>
    /\ EarlierUnchanged
    /\ UNCHANGED <<viewVars, providerVars>>

SubdivideIdle ==
    /\ splitText = <<>>
    /\ splitBase = 0
    /\ splitPc = "returned"
    /\ splitCursor = 0
    /\ splitSegments = <<>>
    /\ splitIterations = 0

SentenceGiven ==
    /\ splitText \in SentenceTexts
    /\ splitBase \in {0, 2}
    /\ splitPc = "ready"
    /\ splitCursor = 0
    /\ splitSegments = <<>>
    /\ splitIterations = 0

NextSubdivide == SplitSentenceByMaxLength \/ SplitIteration \/ SplitReturns

(***************************************************************************)
(* Part 9: the related-chunks sidebar.  ViewManager.handleActiveLeafChange *)
(* (CommandRegistrar.ts, lines 345-391) is debounced: a call arms a timer  *)
(* and the function runs when the timer fires, whether or not an earlier   *)
(* run is still suspended in processMarkdownFile.  The note vector service *)
(* is the environment here: its calls resolve or reject, one run at a      *)
(* time, in any order.                                                     *)
(***************************************************************************)
MaxLookups == 2

SidebarPaths == {FilePath(1), FilePath(2)}

\* TFile.basename
Basename(path) == extractTitleFromPath(path)

NoQuery == <<>>
SidebarQuery == <<"q">>

\* What the similarity query for a file's vector, and the sidebar search,
\* give.
HitsFor(file) ==
    <<[file_path |-> IF file = FilePath(1) THEN FilePath(2) ELSE FilePath(1)]>>
SearchHits == <<[file_path |-> FilePath(3)]>>

\* ---- RelatedChunksView (RelatedChunksView.ts)
NewView ==
    [currentNoteName |-> NoPath, currentResults |-> <<>>,
     isSearchResultsMode |-> FALSE, searchQuery |-> NoQuery]

\* Lines 93-100 (before it, the same without the test of the mode).
updateViewInAnyMode(v, noteName, results) ==
    [v EXCEPT !.currentNoteName = noteName, !.currentResults = results]

updateView(v, noteName, results) ==
    IF v.isSearchResultsMode THEN v
    ELSE [v EXCEPT !.currentNoteName = noteName, !.currentResults = results]

\* Lines 125-127.
clearView(v) == updateView(v, NoPath, <<>>)

\* Lines 129-135.
displaySearchResults(v, query, results) ==
    [currentNoteName |-> NoPath, currentResults |-> results,
     isSearchResultsMode |-> TRUE, searchQuery |-> query]

\* Lines 137-143.
setLoadingState(v, query) ==
    [currentNoteName |-> NoPath, currentResults |-> <<>>,
     isSearchResultsMode |-> TRUE, searchQuery |-> query]

\* ---- ViewManager
\* What a call of updateView did: nothing in search-results mode.
Outcome(v, applied) == IF v.isSearchResultsMode THEN "ignored" ELSE applied

SidebarUnchanged ==
    /\ EarlierUnchanged
    /\ UNCHANGED <<subdivideVars, providerVars>>

\* The workspace's active file changes and the event's handler calls the
\* debounced handleActiveLeafChange.
ActiveLeafChanges(path) ==
    /\ path # workspaceFile
    /\ workspaceFile' = path
    /\ debouncePending' = TRUE
    /\ UNCHANGED <<lastProcessedFilePath, noteVectorServiceReady, autoShowSidebar,
                   sidebarOpen, lookups, relatedChunksView, searchPc, handledSinceReset,
                   lastRun>>
    /\ SidebarUnchanged

\* The plugin's resources are initialized.
NoteVectorServiceReady ==
    /\ ~noteVectorServiceReady
    /\ noteVectorServiceReady' = TRUE
    /\ UNCHANGED <<workspaceFile, debouncePending, lastProcessedFilePath,
                   autoShowSidebar, sidebarOpen, lookups, relatedChunksView, searchPc,
                   handledSinceReset,
                   lastRun>>
    /\ SidebarUnchanged

\* Line 356 (before it, a test that never finds the path the same).
SameAsLastProcessedNever(currentFilePath) == FALSE

SameAsLastProcessed(currentFilePath) == currentFilePath = lastProcessedFilePath

\* Lines 345-391, when the timer fires, up to the first await of
\* processMarkdownFile (line 416).  Every call in the repository leaves
\* skipActivation at its default, false.
HandleActiveLeafChange ==
    /\ debouncePending
    /\ debouncePending' = FALSE
    /\ handledSinceReset' = handledSinceReset \cup {workspaceFile}
    /\ LET currentFilePath == workspaceFile
       IN IF SameAsLastProcessed(currentFilePath)
          THEN UNCHANGED <<lastProcessedFilePath, lookups, relatedChunksView>>
          ELSE /\ lastProcessedFilePath' = currentFilePath
               /\ IF ~noteVectorServiceReady
                  THEN UNCHANGED <<lookups, relatedChunksView>>
                  ELSE IF currentFilePath # NoPath
                       THEN /\ Len(lookups) < MaxLookups
                            /\ lookups' = Append(lookups,
                                                 [file |-> currentFilePath,
                                                  pc |-> "getting vector"])
                            /\ UNCHANGED relatedChunksView
                       ELSE /\ relatedChunksView' =
                                  IF sidebarOpen THEN clearView(relatedChunksView)
                                  ELSE relatedChunksView
                            /\ UNCHANGED lookups
    /\ lastRun' = [path |-> workspaceFile,
                   repeated |-> workspaceFile \in handledSinceReset,
                   lookedUp |-> Len(lookups') > Len(lookups)]
    /\ UNCHANGED <<workspaceFile, noteVectorServiceReady, autoShowSidebar, sidebarOpen,
                   searchPc>>
    /\ SidebarUnchanged

\* handleProcessingError (lines 564-568) and clearSidebarView (570-582).
HandleProcessingError(i) ==
    /\ relatedChunksView' =
          IF sidebarOpen THEN clearView(relatedChunksView) ELSE relatedChunksView
    /\ lookups' = [lookups EXCEPT ![i].pc =
                      IF sidebarOpen THEN Outcome(relatedChunksView, "finished")
                      ELSE "finished"]

\* getNoteVectorFromDB settles for the i-th run: lines 413-423, with
\* handleMissingNoteVector (551-562), or processNoteVector up to the await
\* of findSimilarChunks (444-454).
LookupVectorReplies(i, reply) ==
    /\ i \in DOMAIN lookups
    /\ lookups[i].pc = "getting vector"
    /\ CASE reply = "vector" ->
              /\ lookups' = [lookups EXCEPT ![i].pc = "searching"]
              /\ UNCHANGED relatedChunksView
         [] reply = "null" ->
              /\ relatedChunksView' =
                    IF sidebarOpen
                    THEN updateView(relatedChunksView, Basename(lookups[i].file), <<>>)
                    ELSE relatedChunksView
              /\ lookups' = [lookups EXCEPT ![i].pc =
                                IF sidebarOpen THEN Outcome(relatedChunksView, "shown")
                                ELSE "finished"]
         [] reply = "rejects" -> HandleProcessingError(i)
    /\ UNCHANGED <<workspaceFile, debouncePending, lastProcessedFilePath,
                   noteVectorServiceReady, autoShowSidebar, sidebarOpen, searchPc,
                   handledSinceReset,
                   lastRun>>
    /\ SidebarUnchanged

\* findSimilarChunks settles for the i-th run: lines 456-470 and
\* updateOrCreateSidebarView (508-521) up to the await of
\* activateRelatedChunksView (543).
LookupQueryReplies(i, resolves) ==
    /\ i \in DOMAIN lookups
    /\ lookups[i].pc = "searching"
    /\ IF ~resolves THEN HandleProcessingError(i)
       ELSE IF sidebarOpen
            THEN /\ relatedChunksView' =
                       updateView(relatedChunksView, Basename(lookups[i].file),
                                  HitsFor(lookups[i].file))
                 /\ lookups' = [lookups EXCEPT
                                   ![i].pc = Outcome(relatedChunksView, "shown")]
            ELSE /\ lookups' = [lookups EXCEPT
                                   ![i].pc = IF autoShowSidebar THEN "activating"
                                             ELSE "finished"]
                 /\ UNCHANGED relatedChunksView
    /\ UNCHANGED <<workspaceFile, debouncePending, lastProcessedFilePath,
                   noteVectorServiceReady, autoShowSidebar, sidebarOpen, searchPc,
                   handledSinceReset,
                   lastRun>>
    /\ SidebarUnchanged

\* activateRelatedChunksView has opened the sidebar for the i-th run:
\* createAndUpdateSidebarView, lines 543-549, and updateExistingSidebarView
\* (523-537).
\* A view opened by this run is a new one.
LookupViewActivated(i) ==
    /\ i \in DOMAIN lookups
    /\ lookups[i].pc = "activating"
    /\ sidebarOpen' = TRUE
    /\ LET v == IF sidebarOpen THEN relatedChunksView ELSE NewView
       IN /\ relatedChunksView' =
                updateView(v, Basename(lookups[i].file), HitsFor(lookups[i].file))
          /\ lookups' = [lookups EXCEPT ![i].pc = Outcome(v, "shown")]
    /\ UNCHANGED <<workspaceFile, debouncePending, lastProcessedFilePath,
                   noteVectorServiceReady, autoShowSidebar, searchPc, handledSinceReset,
                   lastRun>>
    /\ SidebarUnchanged

\* searchAndDisplayInSidebar, lines 273-306, up to the await of the search:
\* the sidebar is opened, the view is put in its loading state.
SearchAndDisplayInSidebar ==
    /\ searchPc = "idle"
    /\ noteVectorServiceReady
    /\ searchPc' = "searching"
    /\ sidebarOpen' = TRUE
    /\ relatedChunksView' =
          setLoadingState(IF sidebarOpen THEN relatedChunksView ELSE NewView,
                          SidebarQuery)
    /\ UNCHANGED <<workspaceFile, debouncePending, lastProcessedFilePath,
                   noteVectorServiceReady, autoShowSidebar, lookups, handledSinceReset,
                   lastRun>>
    /\ SidebarUnchanged

\* Lines 301-325: the search settles.
SidebarSearchReplies(resolves) ==
    /\ searchPc = "searching"
    /\ searchPc' = "idle"
    /\ relatedChunksView' =
          IF resolves
          THEN displaySearchResults(relatedChunksView, SidebarQuery, SearchHits)
          ELSE relatedChunksView
    /\ UNCHANGED <<workspaceFile, debouncePending, lastProcessedFilePath,
                   noteVectorServiceReady, autoShowSidebar, sidebarOpen, lookups,
                   handledSinceReset,
                   lastRun>>
    /\ SidebarUnchanged

\* RelatedChunksView.handleBackClick, lines 145-156, with
\* resetLastProcessedFile (CommandRegistrar.ts, 584-586) and the call of
\* the debounced handleActiveLeafChange.
HandleBackClick ==
    /\ sidebarOpen
    /\ relatedChunksView' =
          updateView([relatedChunksView EXCEPT !.isSearchResultsMode = FALSE,
                                               !.searchQuery = NoQuery],
                     IF workspaceFile = NoPath THEN NoPath ELSE Basename(workspaceFile),
                     <<>>)
    /\ lastProcessedFilePath' = NoPath
    /\ handledSinceReset' = {}
    /\ debouncePending' = TRUE
    /\ UNCHANGED <<workspaceFile, noteVectorServiceReady, autoShowSidebar, sidebarOpen,
                   lookups, searchPc, lastRun>>
    /\ SidebarUnchanged

NoRun == [path |-> NoPath, repeated |-> FALSE, lookedUp |-> FALSE]

SidebarIdle ==
    /\ workspaceFile = NoPath
    /\ debouncePending = FALSE
    /\ lastProcessedFilePath = NoPath
    /\ noteVectorServiceReady = FALSE
    /\ autoShowSidebar = FALSE
    /\ sidebarOpen = FALSE
    /\ lookups = <<>>
    /\ relatedChunksView = NewView
    /\ searchPc = "idle"
    /\ handledSinceReset = {}
    /\ lastRun = NoRun

\* The plugin has been loaded: no file handled yet, the sidebar open or not.
SidebarGiven ==
    /\ workspaceFile = NoPath
    /\ debouncePending = FALSE
    /\ lastProcessedFilePath = NoPath
    /\ noteVectorServiceReady \in BOOLEAN
    /\ autoShowSidebar \in BOOLEAN
    /\ sidebarOpen \in BOOLEAN
    /\ lookups = <<>>
    /\ relatedChunksView = NewView
    /\ searchPc = "idle"
    /\ handledSinceReset = {}
    /\ lastRun = NoRun

NextSidebar ==
    \/ \E path \in SidebarPaths \cup {NoPath} : ActiveLeafChanges(path)
    \/ NoteVectorServiceReady
    \/ HandleActiveLeafChange
    \/ \E i \in 1..MaxLookups, reply \in {"vector", "null", "rejects"} :
          LookupVectorReplies(i, reply)
    \/ \E i \in 1..MaxLookups, resolves \in BOOLEAN : LookupQueryReplies(i, resolves)
    \/ \E i \in 1..MaxLookups : LookupViewActivated(i)
    \/ SearchAndDisplayInSidebar
    \/ \E resolves \in BOOLEAN : SidebarSearchReplies(resolves)
    \/ HandleBackClick

(***************************************************************************)
(* Part 10: PGliteProvider.  Two files define the class: pgworker/index.ts *)
(* (lines 100-191), which runs PGlite itself, and unnamed/part_004, which   *)
(* talks to PGlite in a worker.  They differ in close() and in the test of *)
(* discardDB.  The PGlite client and IndexedDB are the environment: their  *)
(* calls resolve or reject.  One call of each method is in flight at most. *)
(***************************************************************************)
MaxClients == 3

ProviderFiles == {"pgworker/index.ts", "part_004"}

\* isReady(): index.ts 142-144, part_004 112-114.
isReady == pgInitialized /\ pgClient # 0

\* getClient() throws: index.ts 133-140, part_004 101-110.
getClientThrows == pgClient = 0

ProviderUnchanged ==
    /\ EarlierUnchanged
    /\ UNCHANGED <<subdivideVars, viewVars>>

\* initialize() up to its first await: index.ts 100-108 (loadPGliteResources),
\* part_004 36-78 (createAndInitDb).
Initialize ==
    /\ initPc = "idle"
    /\ ~(pgInitialized /\ pgClient # 0)
    /\ clientsCreated < MaxClients
    /\ initPc' = IF providerFile = "pgworker/index.ts" THEN "loading" ELSE "creating"
    /\ UNCHANGED <<providerFile, pgClient, pgInitialized, clientsCreated, closedClients,
                   closePc, discardPc>>
    /\ ProviderUnchanged

\* index.ts 106-113: loadPGliteResources settles; a failure runs the catch
\* (124-130).
InitializeLoaded(ok) ==
    /\ initPc = "loading"
    /\ IF ok
       THEN /\ initPc' = "creating"
            /\ UNCHANGED <<pgClient, pgInitialized>>
       ELSE /\ initPc' = "idle"
            /\ pgClient' = 0
            /\ pgInitialized' = FALSE
    /\ UNCHANGED <<providerFile, clientsCreated, closedClients, closePc, discardPc>>
    /\ ProviderUnchanged

\* index.ts 113-130, part_004 78-98: the client is created, or the catch
\* resets the state.
InitializeCreated(ok) ==
    /\ initPc = "creating"
    /\ initPc' = "idle"
    /\ IF ok
       THEN /\ clientsCreated' = clientsCreated + 1
            /\ pgClient' = clientsCreated + 1
            /\ pgInitialized' = TRUE
       ELSE /\ pgClient' = 0
            /\ pgInitialized' = FALSE
            /\ UNCHANGED clientsCreated
    /\ UNCHANGED <<providerFile, closedClients, closePc, discardPc>>
    /\ ProviderUnchanged

\* close() up to its await: index.ts 146-149, part_004 116-119.  Without a
\* client it does nothing.
Close ==
    /\ closePc = "idle"
    /\ pgClient # 0
    /\ closePc' = "closing"
    /\ UNCHANGED <<providerFile, pgClient, pgInitialized, clientsCreated, closedClients,
                   initPc, discardPc>>
    /\ ProviderUnchanged

\* Whether close() resets the fields once the client's close() has resolved:
\* pgworker/index.ts does, part_004 assigns nothing.
ClosedClientDropped(file) == file = "pgworker/index.ts"

\* The client's close() settles: index.ts 149-156, part_004 119-129.  A
\* failure is logged.  When discardDB called close(), it goes on to
\* deleteDB.
CloseSettles(ok) ==
    /\ closePc = "closing"
    /\ closePc' = "idle"
    /\ closedClients' = IF ok THEN closedClients \cup {pgClient} ELSE closedClients
    /\ IF ok /\ ClosedClientDropped(providerFile)
       THEN /\ pgClient' = 0
            /\ pgInitialized' = FALSE
       ELSE UNCHANGED <<pgClient, pgInitialized>>
    /\ discardPc' = IF discardPc = "closing" THEN "deleting" ELSE discardPc
    /\ UNCHANGED <<providerFile, clientsCreated, initPc>>
    /\ ProviderUnchanged

\* discardDB() up to its first await: index.ts 159-171, part_004 132-142.
DiscardDB ==
    /\ discardPc = "idle"
    /\ closePc = "idle"
    /\ IF pgClient # 0 /\ (providerFile = "pgworker/index.ts" \/ pgInitialized)
       THEN /\ discardPc' = "closing"
            /\ closePc' = "closing"
       ELSE /\ discardPc' = "deleting"
            /\ UNCHANGED closePc
    /\ UNCHANGED <<providerFile, pgClient, pgInitialized, clientsCreated, closedClients,
                   initPc>>
    /\ ProviderUnchanged

\* deleteDB settles: index.ts 171-190, part_004 142-165.  Resolved or
\* rejected, the fields are reset.
DiscardDeleted(ok) ==
    /\ discardPc = "deleting"
    /\ discardPc' = "idle"
    /\ pgClient' = 0
    /\ pgInitialized' = FALSE
    /\ UNCHANGED <<providerFile, clientsCreated, closedClients, initPc, closePc>>
    /\ ProviderUnchanged

ProviderIdle ==
    /\ providerFile = "pgworker/index.ts"
    /\ pgClient = 0
    /\ pgInitialized = FALSE
    /\ clientsCreated = 0
    /\ closedClients = {}
    /\ initPc = "idle"
    /\ closePc = "idle"
    /\ discardPc = "idle"

\* The provider as constructed, from either file.
ProviderGiven ==
    /\ providerFile \in ProviderFiles
    /\ pgClient = 0
    /\ pgInitialized = FALSE
    /\ clientsCreated = 0
    /\ closedClients = {}
    /\ initPc = "idle"
    /\ closePc = "idle"
    /\ discardPc = "idle"

NextProvider ==
    \/ Initialize
    \/ \E ok \in BOOLEAN : InitializeLoaded(ok)
    \/ \E ok \in BOOLEAN : InitializeCreated(ok)
    \/ Close
    \/ \E ok \in BOOLEAN : CloseSettles(ok)
    \/ DiscardDB
    \/ \E ok \in BOOLEAN : DiscardDeleted(ok)

LaterIdle == SubdivideIdle /\ SidebarIdle /\ ProviderIdle

EarlierIdle ==
    /\ InitRpc /\ InitPlugin /\ ChunkIdle /\ CacheIdle
    /\ vaultFiles = <<>> /\ onProgress = FALSE /\ IndexIdle
    /\ RetrievalIdle /\ AssemblyIdle

InitSubdivide == EarlierIdle /\ SentenceGiven /\ SidebarIdle /\ ProviderIdle

InitSidebar == EarlierIdle /\ SubdivideIdle /\ SidebarGiven /\ ProviderIdle

InitProvider == EarlierIdle /\ SubdivideIdle /\ SidebarIdle /\ ProviderGiven

ServicesIdle ==
    /\ vaultFiles = <<>>
    /\ onProgress = FALSE
    /\ IndexIdle
    /\ RetrievalIdle
    /\ AssemblyIdle
    /\ LaterIdle

InitIndex ==
    /\ InitRpc /\ InitPlugin /\ ChunkIdle /\ CacheIdle
    /\ VaultGiven /\ RetrievalIdle /\ AssemblyIdle /\ LaterIdle

InitRetrieval ==
    /\ InitRpc /\ InitPlugin /\ ChunkIdle /\ CacheIdle
    /\ vaultFiles = <<>> /\ onProgress = FALSE /\ IndexIdle
    /\ RetrievalGiven /\ AssemblyIdle /\ LaterIdle

InitAssemble ==
    /\ InitRpc /\ InitPlugin /\ ChunkIdle /\ CacheIdle
    /\ vaultFiles = <<>> /\ onProgress = FALSE /\ IndexIdle
    /\ RetrievalIdle /\ SpansGiven /\ LaterIdle

InitChunk == InitRpc /\ InitPlugin /\ DocumentGiven /\ CacheIdle /\ ServicesIdle

Init == InitRpc /\ InitPlugin /\ ChunkIdle /\ CacheIdle /\ ServicesIdle

Spec == Init /\ [][Next]_vars

SpecPlugin == Init /\ [][NextPlugin]_vars

SpecChunk == InitChunk /\ [][NextChunk]_vars

SpecCache == Init /\ [][NextCache]_vars
SpecIndex == InitIndex /\ [][NextIndex]_vars
SpecRetrieval == InitRetrieval /\ [][NextRetrieval]_vars
SpecAssemble == InitAssemble /\ [][NextAssemble]_vars

\* The call is synchronous: once entered, it runs until it returns.
SpecSubdivide ==
    InitSubdivide /\ [][NextSubdivide]_vars /\ WF_vars(NextSubdivide)

SpecSidebar == InitSidebar /\ [][NextSidebar]_vars

SpecProvider == InitProvider /\ [][NextProvider]_vars


(***************************************************************************)
(* Claims about Part 1 (specification Spec)                                *)
(***************************************************************************)
\* The response type the message contract pairs with each request type.
PairedResponseType(type) ==
    CASE type = "initialize"        -> "initialized"
      [] type = "vectorizeAndStore" -> "vectorizeAndStoreResult"
      [] type = "search"            -> "searchResult"
      [] type = "rebuildDb"         -> "rebuildDbResult"
      [] type = "testSimilarity"    -> "testSimilarityResult"
      [] type = "closeDb"           -> "dbClosed"
      [] OTHER                      -> "error"

\* Nothing is in flight and no handler is suspended.
Quiescent == wInbox = <<>> /\ wInitRunning = {} /\ cInbox = EmptyBag

Settled(id) == handle[id].state \in {"resolved", "rejected"}

\* h is a reply to a request of type t: the paired success reply, or an error
\* reply whose payload names t.
ReplyAnswers(t, h) ==
    \/ h.type # "error" /\ h.type = PairedResponseType(t)
    \/ h.type = "error" /\ Len(h.payload) >= 2 /\ h.payload[2] = t

\* C1: for calls issued with distinct ids and replies delivered in any order,
\* each call's handle is settled at most once and, once nothing is in flight,
\* exactly once; it is settled with a reply the worker posted under that
\* call's own id, which answers that call's own request; a message whose id
\* is not in the pending-calls table settles nothing.
C1_Correlation ==
    \A id \in Ids :
        /\ settles[id] <= 1
        /\ (id \in pendingCalls) <=> (handle[id].state = "pending")
        /\ Settled(id) =>
              /\ settles[id] = 1
              /\ \E i \in 1..Len(posted[id]) :
                    posted[id][i] = [type |-> handle[id].type,
                                     payload |-> handle[id].payload]
              /\ ReplyAnswers(reqType[id], handle[id])
        /\ ~Settled(id) => settles[id] = 0
        /\ (id < nextId /\ Quiescent) => settles[id] = 1
        /\ id >= nextId => handle[id] = NoHandle

\* C1 witness: a later call's reply has been delivered and resolved its own
\* handle while an earlier call is still pending (replies out of dispatch
\* order), and a status message (no id) is still to be delivered.
C1_Witness ==
    \E a, b \in Ids :
        /\ a < b
        /\ handle[a].state = "pending"
        /\ handle[b].state = "rejected"
        /\ reqType[a] # reqType[b]
        /\ \E m \in BagToSet(cInbox) : m.id = NoId

\* C5: every request the worker has handled to the end has exactly one reply
\* carrying its id, of the paired response type or of type error; a request
\* not yet handled to the end has none; no reply carries another id; and two
\* requests of different types never get success replies of the same type.
C5_OneReplyPerRequest ==
    /\ posted[NoId] = <<>>
    /\ \A id \in Ids :
          /\ (id \notin handled \/ id \in wInitRunning) => posted[id] = <<>>
          /\ (id \in handled /\ id \notin wInitRunning) =>
                /\ Len(posted[id]) = 1
                /\ posted[id][1].type \in {PairedResponseType(reqType[id]), "error"}
    /\ \A a, b \in handled :
          (/\ reqType[a] # reqType[b]
           /\ posted[a] # <<>> /\ posted[b] # <<>>
           /\ posted[a][1].type # "error" /\ posted[b][1].type # "error")
          => posted[a][1].type # posted[b][1].type

\* C5 witness: one handled request got an error reply and two requests of
\* different types got their success replies.
C5_Witness ==
    \E a, b, c \in handled :
        /\ posted[a] # <<>> /\ posted[a][1].type = "error"
        /\ posted[b] # <<>> /\ posted[b][1].type = "initialized"
        /\ posted[c] # <<>> /\ posted[c][1].type \notin {"error", "initialized"}

\* The initialize handshake has completed: an "initialized" reply with
\* payload true has been posted.
HandshakeCompleted ==
    \E id \in Ids : \E i \in 1..Len(posted[id]) :
        posted[id][i] = [type |-> "initialized", payload |-> <<"true">>]

\* C6: a request of a type other than initialize that the worker handles
\* before the handshake has completed (also while an initialize is running)
\* gets an error reply; one handled after the handshake has completed gets
\* its paired success reply.
C6_GatedByHandshake ==
    [][(wInbox # <<>> /\ handled' # handled
          /\ Head(wInbox).type \in KnownRequestTypes \ {"initialize"})
       => LET req == Head(wInbox) IN
            /\ Len(posted'[req.id]) = 1
            /\ posted'[req.id][1].type =
                  IF HandshakeCompleted THEN PairedResponseType(req.type)
                                        ELSE "error"]_vars

\* C6 witness: while an initialize is still running, a request of another
\* type that arrived after it has been answered with an error.
C6_Witness ==
    \E r \in wInitRunning : \E id \in handled :
        /\ r < id
        /\ reqType[id] \in KnownRequestTypes \ {"initialize"}
        /\ posted[id] # <<>> /\ posted[id][1].type = "error"
        /\ ~isInitialized

\* C7: an initialize request handled while an earlier initialize is still
\* running, or after one has completed, does not start another run of the
\* initialization body.
C7_SingleInitRun ==
    [][(wInitRunning # {} \/ isInitialized) => wInitRunning' \subseteq wInitRunning]_vars

(***************************************************************************)
(* Claims about Part 2 (specification SpecPlugin)                          *)
(***************************************************************************)
\* The runs of initializeResources suspended at their await.
InFlight == {r \in Runs : runPc[r] = "awaitProxy"}

C2_NoDanglingCall ==
    \A p \in Proxies :
        /\ \A k \in CallKinds : (k \in proxyPending[p]) <=> (callState[p][k] = "pending")
        /\ p \in proxyTerminated => proxyPending[p] = {}
        /\ (p <= proxyCount /\ p # proxy) => p \in proxyTerminated
        /\ microtasks = <<>> =>
              /\ \A r \in InFlight : runProxy[r] = p => "init" \in proxyPending[p]
              /\ (clearPc = "awaitClose" /\ p = proxy) => "closeDb" \in proxyPending[p]

C2_CancelledAtTermination ==
    \A p \in Proxies : \A k \in CallKinds :
        (callState[p][k] = "pending" /\ p \in proxyTerminated' /\ p \notin proxyTerminated)
        => callState'[p][k] = "cancelled"

\* C2: a proxy the plugin has let go (on unload, on clearing the resources,
\* after a failed initialization) has been terminated; termination turns
\* every call pending at that moment into a cancelled one and leaves the
\* pending table empty; and once the continuations made ready have run, no
\* run of initializeResources and no clearResources is still suspended on a
\* call that is no longer pending.
C2_TerminationRejectsPending ==
    [](C2_NoDanglingCall) /\ [][C2_CancelledAtTermination]_vars

\* C2 witness: the plugin has been unloaded while a testSimilarity call was
\* pending and an initialization was awaiting its handshake on another
\* proxy earlier on; both calls were cancelled.
C2_Witness ==
    /\ unloaded
    /\ \E p \in Proxies : callState[p]["testSimilarity"] = "cancelled"
    /\ \E p \in Proxies : callState[p]["init"] = "cancelled"

\* C3: initialization requests made while an initialization is in flight
\* start no second run of initializeResources, and every caller waiting
\* waits for the run in flight.
C3_SingleInFlightInitialization ==
    /\ Cardinality(InFlight) <= 1
    /\ \A e \in Callers :
          (ensurePc[e] = "waiting" /\ microtasks = <<>>) => ensureWaits[e].run \in InFlight

\* C4: once a failed attempt's catch block and the continuations it made
\* ready have run, the stored initialization handle is not that of a failed
\* attempt (so the next ensureResourcesInitialized starts a fresh one), and
\* the services, the command handler and the proxy left by a failure are
\* reset.
C4_FailedAttemptIsReset ==
    microtasks = <<>> =>
        (initializationPromise.run = 0 \/ runPc[initializationPromise.run] # "failed")

(***************************************************************************)
(* Claims about Part 3 (specification SpecChunk)                           *)
(***************************************************************************)
Chunked == chunkPc = "done"

\* The metadata block's length and the segmenter's spans of the document
\* chunked, the spans in the offsets of the stripped text.
StrippedLength == removeFrontmatter(noteContent).frontmatterLength
StrippedText == removeFrontmatter(noteContent).processedText
Spans == splitIntoSentences(removeUrls(StrippedText))
Title == extractTitleFromPath(filePath)

OrderedDisjoint(starts, ends) ==
    \A i, j \in DOMAIN starts :
        i < j => (starts[i] < starts[j] /\ ends[i] <= starts[j])

\* C8: the chunks produced for a document, as chunkMarkdown returns them and
\* as chunkText reports them, are pairwise disjoint as half-open intervals
\* [start, end) of the original text and are listed by strictly increasing
\* start.
C8_ChunksOrderedDisjoint ==
    Chunked =>
        /\ OrderedDisjoint([i \in DOMAIN chunkInfos |-> chunkInfos[i].startPosition],
                           [i \in DOMAIN chunkInfos |-> chunkInfos[i].endPosition])
        /\ OrderedDisjoint(
              [i \in DOMAIN chunksFromMarkdown |-> chunksFromMarkdown[i].originalOffsetStart],
              [i \in DOMAIN chunksFromMarkdown |-> chunksFromMarkdown[i].originalOffsetEnd])

\* C8 witness: three or more chunks were reported, two neighbours among them
\* with text of the document between them.
C8_Witness ==
    /\ Chunked
    /\ Len(chunkInfos) >= 3
    /\ \E i \in 1..(Len(chunkInfos) - 1) :
          chunkInfos[i].endPosition < chunkInfos[i + 1].startPosition

\* A chunk that is one single span longer than the maximum chunk size.
IsOversizedSpan(text, start, end) ==
    /\ Len(text) > MAX_CHUNK_SIZE
    /\ \E k \in DOMAIN Spans :
          /\ Spans[k].text = text
          /\ Spans[k].startOffset + StrippedLength = start
          /\ Spans[k].endOffset + StrippedLength = end

\* C9: no chunk's text is longer than the maximum chunk size, except a chunk
\* that consists of one single span longer than that maximum.
C9_ChunkTextBounded ==
    Chunked =>
        \A i \in DOMAIN chunkInfos :
            \/ Len(chunkInfos[i].chunk) <= MAX_CHUNK_SIZE
            \/ IsOversizedSpan(chunkInfos[i].chunk, chunkInfos[i].startPosition,
                               chunkInfos[i].endPosition)

\* C9 as the code has it: the bound holds for the texts chunkMarkdown
\* assembles; chunkText reports those texts, the first one behind the
\* document's title and ": " when a path is given (or the title alone when
\* there is nothing to chunk), so a reported text is longer than the maximum
\* by at most the title's length and two.  No span is left out: each lies
\* inside a chunk, and the last chunk ends where the last span ends.
C9_AssembledTextBounded ==
    Chunked =>
        /\ \A i \in DOMAIN chunksFromMarkdown :
              \/ Len(chunksFromMarkdown[i].text) <= MAX_CHUNK_SIZE
              \/ IsOversizedSpan(chunksFromMarkdown[i].text,
                                 chunksFromMarkdown[i].originalOffsetStart,
                                 chunksFromMarkdown[i].originalOffsetEnd)
        /\ LET title == Title
           IN IF chunksFromMarkdown = <<>>
              THEN chunkInfos = TitleOnly(title, filePath)
              ELSE /\ Len(chunkInfos) = Len(chunksFromMarkdown)
                   /\ \A i \in DOMAIN chunkInfos :
                         chunkInfos[i].chunk =
                            IF i = 1 /\ title # <<>>
                            THEN title \o <<":", " ">> \o chunksFromMarkdown[i].text
                            ELSE chunksFromMarkdown[i].text
        /\ LET spans == Spans
               L == StrippedLength
           IN /\ \A k \in DOMAIN spans : \E i \in DOMAIN chunksFromMarkdown :
                    /\ chunksFromMarkdown[i].originalOffsetStart <= spans[k].startOffset + L
                    /\ spans[k].endOffset + L <= chunksFromMarkdown[i].originalOffsetEnd
              /\ spans # <<>> =>
                    /\ chunksFromMarkdown # <<>>
                    /\ chunksFromMarkdown[Len(chunksFromMarkdown)].originalOffsetEnd
                          = spans[Len(spans)].endOffset + L

\* C9 witness: a document without punctuation gave several chunks, and the
\* first one is reported behind the title with a text longer than the
\* maximum.
C9_Witness ==
    /\ Chunked
    /\ Len(chunksFromMarkdown) >= 2
    /\ \A j \in DOMAIN noteContent : noteContent[j] \notin SeparatorCharacters
    /\ Title # <<>>
    /\ Len(chunkInfos[1].chunk) > MAX_CHUNK_SIZE
    /\ \E i \in DOMAIN chunksFromMarkdown : Len(chunksFromMarkdown[i].text) = MAX_CHUNK_SIZE

\* C10: the metadata block stripped is a prefix of the document, of length
\* L; every chunk starts where a span starts and ends where a span ends, at
\* the span's offset in the stripped text plus L, so that the original
\* text between a span's reported offsets is the stripped text between the
\* span's own; chunkText reports the same offsets; and a document that does
\* not begin with the metadata block's opening line has L = 0 and is not
\* stripped.
C10_OffsetsShiftedByMetadataLength ==
    Chunked =>
        LET spans == Spans
            L == StrippedLength
            stripped == StrippedText
        IN
        /\ L \in 0..Len(noteContent)
        /\ stripped = Slice(noteContent, L, Len(noteContent))
        /\ ~DashesAt(noteContent, 0) => (L = 0 /\ stripped = noteContent)
        /\ L > 0 => IsLineBreak(noteContent[L])
        /\ \A i \in DOMAIN chunksFromMarkdown :
              \E a, b \in DOMAIN spans :
                 /\ a <= b
                 /\ chunksFromMarkdown[i].originalOffsetStart = spans[a].startOffset + L
                 /\ chunksFromMarkdown[i].originalOffsetEnd = spans[b].endOffset + L
                 /\ \A k \in a..b :
                       Slice(noteContent, spans[k].startOffset + L, spans[k].endOffset + L)
                          = Slice(stripped, spans[k].startOffset, spans[k].endOffset)
        /\ \A i \in DOMAIN chunksFromMarkdown :
              /\ i \in DOMAIN chunkInfos
              /\ chunkInfos[i].startPosition = chunksFromMarkdown[i].originalOffsetStart
              /\ chunkInfos[i].endPosition = chunksFromMarkdown[i].originalOffsetEnd

\* C10 witness: a metadata block was stripped, and the rest of the document
\* gave two or more chunks, the first starting after white space.
C10_Witness ==
    /\ Chunked
    /\ Len(chunksFromMarkdown) >= 2
    /\ StrippedLength > 0
    /\ chunksFromMarkdown[1].originalOffsetStart > StrippedLength

\* C11: a chunk reported for a document either has the offsets -1/-1, and
\* then it is the only chunk reported and its text is the document's title,
\* or its offsets satisfy 0 <= startPosition < endPosition <= len(T).
C11_ReportedOffsetsInDocument ==
    Chunked =>
        \A i \in DOMAIN chunkInfos :
            IF chunkInfos[i].startPosition = -1 /\ chunkInfos[i].endPosition = -1
            THEN Len(chunkInfos) = 1 /\ chunkInfos[i].chunk = Title /\ Title # <<>>
            ELSE /\ 0 <= chunkInfos[i].startPosition
                 /\ chunkInfos[i].startPosition < chunkInfos[i].endPosition
                 /\ chunkInfos[i].endPosition <= Len(noteContent)

\* C11 witness: several chunks were reported, the first starting at offset 0
\* and the last ending at the document's end, cut from a subdivided
\* sentence.
C11_Witness ==
    /\ Chunked
    /\ Len(chunkInfos) >= 2
    /\ chunkInfos[1].startPosition = 0
    /\ chunkInfos[Len(chunkInfos)].endPosition = Len(noteContent)
    /\ Len(Spans) > Len(splitSentencesInternal(removeUrls(StrippedText)))

\* The text the segmenter is given.
SegmenterInput == removeUrls(StrippedText)

\* C12: the segmenter's spans are non-empty, in increasing offset order and
\* pairwise disjoint; a span's text has no white space at either end and
\* is the input text between the span's offsets.
C12_SpansTrimmedAndExact ==
    Chunked =>
        LET input == SegmenterInput
            spans == Spans
        IN /\ \A k \in DOMAIN spans :
                 /\ Len(spans[k].text) > 0
                 /\ 0 <= spans[k].startOffset
                 /\ spans[k].endOffset <= Len(input)
                 /\ spans[k].endOffset - spans[k].startOffset = Len(spans[k].text)
                 /\ spans[k].text = Slice(input, spans[k].startOffset, spans[k].endOffset)
                 /\ ~IsWhitespace(spans[k].text[1])
                 /\ ~IsWhitespace(spans[k].text[Len(spans[k].text)])
           /\ \A j, k \in DOMAIN spans :
                 j < k => spans[j].endOffset <= spans[k].startOffset

\* C12 witness: a sentence was subdivided and one of its pieces starts
\* after white space the trimming took out of the segment.
C12_Witness ==
    /\ Chunked
    /\ \E k \in DOMAIN Spans :
          /\ k > 1
          /\ Spans[k - 1].endOffset < Spans[k].startOffset
          /\ \E r \in DOMAIN splitSentencesInternal(SegmenterInput) :
                LET range == splitSentencesInternal(SegmenterInput)[r]
                IN range[1] <= Spans[k - 1].startOffset /\ Spans[k].endOffset <= range[2]

\* The characters of a text that are not white space, in order.
NonWhitespace(s) == SelectSeq(s, LAMBDA c : ~IsWhitespace(c))

RECURSIVE SpanTexts(_)
SpanTexts(spans) ==
    IF spans = <<>> THEN <<>> ELSE Head(spans).text \o SpanTexts(Tail(spans))

\* The sentences of the segmenter's input that are subdivided: those whose
\* trimmed text is longer than the maximum sentence length.
SubdividedSentences ==
    LET nodes == splitSentencesInternal(SegmenterInput)
    IN {nodes[r] : r \in {q \in DOMAIN nodes :
                            Len(TrimmedSlice(Slice(SegmenterInput, nodes[q][1], nodes[q][2])))
                               > MAX_SENTENCE_CHARS}}

\* C13: the pieces of a subdivided sentence hold the sentence's characters
\* other than white space, each once and in order.
C13_PiecesCoverSentence ==
    Chunked =>
        \A range \in SubdividedSentences :
            NonWhitespace(SpanTexts(NodeSpans(SegmenterInput, range)))
               = NonWhitespace(Slice(SegmenterInput, range[1], range[2]))

\* C13 witness: a sentence with white space inside was subdivided into
\* three or more pieces.
C13_Witness ==
    /\ Chunked
    /\ \E range \in SubdividedSentences :
          /\ Len(NodeSpans(SegmenterInput, range)) >= 3
          /\ \E j \in (range[1] + 1)..range[2] : IsWhitespace(SegmenterInput[j])

\* C14: a piece of a subdivided sentence, other than the sentence's last
\* piece, is not shorter than the minimum sentence length.  (A sentence
\* that is not subdivided is taken as its own final remainder.)
C14_PiecesNotShorterThanMinimum ==
    Chunked =>
        \A range \in SubdividedSentences :
            LET pieces == NodeSpans(SegmenterInput, range)
            IN \A k \in 1..(Len(pieces) - 1) : Len(pieces[k].text) >= MIN_SENTENCE_CHARS

\* The document has nothing to chunk once its metadata block is stripped
\* and its URLs are blanked.
BlankAfterPreprocessing == IsBlank(SegmenterInput)

\* C15: a document that is blank, or blank after metadata stripping and URL
\* blanking, yields no chunk.
C15_BlankYieldsNoChunk ==
    (Chunked /\ BlankAfterPreprocessing) =>
        (chunksFromMarkdown = <<>> /\ chunkInfos = <<>>)

\* C15 as the code has it: chunkMarkdown yields no chunk for such a
\* document; chunkText reports no chunk when no title can be taken from a
\* path, and otherwise one chunk, the title, with the offsets -1/-1.
C15_BlankYieldsNoAssembledChunk ==
    (Chunked /\ BlankAfterPreprocessing) =>
        /\ chunksFromMarkdown = <<>>
        /\ chunkInfos = IF Title = <<>> THEN <<>>
                        ELSE <<[chunk |-> Title, filePath |-> filePath,
                                startPosition |-> -1, endPosition |-> -1]>>

\* C15 witness: a document holding a metadata block and a URL and nothing
\* else but white space was chunked without a path: nothing was reported.
C15_Witness ==
    /\ Chunked
    /\ StrippedLength > 0
    /\ removeUrls(StrippedText) # StrippedText
    /\ BlankAfterPreprocessing
    /\ filePath = NoPath
    /\ chunkInfos = <<>>


(***************************************************************************)
(* Claims about Part 4 (specification SpecCache)                           *)
(***************************************************************************)
\* The values of the chunks a list of references leads to, now.
ValuesOf(refs) == ChunkValues(chunkObjs, idArrays, refs)

\* The same after the step.
ValuesAfter(refs) == ChunkValues(chunkObjs', idArrays', refs)

\* The call of caller c returns in this step, from the hit path or after a
\* miss.
ReturnsHit(c) == callPc[c] = "hashing" /\ callPc'[c] = "hit"
ReturnsMiss(c) == callPc[c] = "hashing" /\ callPc'[c] = "miss"

\* The keys of the entries held.
CacheKeys == {e.key : e \in Range(cache)}

\* Caller c has written into a chunk of the list it was given.
HasMutated(c) ==
    \E i \in 1..Len(callResult[c]) : chunkObjs[callResult[c][i]].text = Overwritten

\* C16: no list chunkMarkdown returns, on a hit or after a miss, shares a
\* chunk object or a contributingSegmentIds array with the cache entry.
\* Whatever callers write into the chunks they were given, an entry that
\* stays in the cache keeps the chunk values it was stored with, and a hit
\* returns those values.
C16_CallersCannotChangeEntries ==
    [][/\ \A i \in 1..Len(cache) : \A j \in 1..Len(cache') :
             (cache[i].key = cache'[j].key
              /\ cache[i].timestamp = cache'[j].timestamp)
             => ValuesAfter(cache'[j].chunks) = ValuesOf(cache[i].chunks)
       /\ \A c \in ChunkCallers :
             ReturnsHit(c) =>
                \A e \in CacheGet(cache, computeHash(callText[c])) :
                   ValuesAfter(callResult'[c]) = ValuesOf(e.chunks)
      ]_vars

\* C16 witness: two callers were given the chunks of the same text, one
\* after the miss that stored them and one from a hit; both have written
\* into their chunks, and the entry is still in the cache.
C16_Witness ==
    \E c \in ChunkCallers : \E d \in ChunkCallers :
        /\ callPc[c] = "miss" /\ callPc[d] = "hit"
        /\ callText[c] = callText[d]
        /\ HasMutated(c) /\ HasMutated(d)
        /\ CacheGet(cache, computeHash(callText[c])) # {}

IsEncodedExactly(content) ==
    \A i \in 1..Len(content) :
        content[i] \notin {HighSurrogate, OtherSurrogate, ReplacementCharacter}

\* C17 for the calls made with such a text.
C17_HitEqualsAssemblyOfExactlyEncodedText ==
    [][\A c \in ChunkCallers :
          (ReturnsHit(c) /\ IsEncodedExactly(callText[c]))
          => ValuesAfter(callResult'[c]) = chunkMarkdown(callText[c])
      ]_vars

\* C18: when chunkMarkdown returns after a miss or an expired hit, the cache
\* holds an entry under the digest of the text, with chunks value-equal to
\* the returned list and the time of the call as its timestamp; and an
\* entry returned as a hit is not expired at the time of the call.
C18_MissLeavesFreshEntry ==
    [][\A c \in ChunkCallers :
          /\ ReturnsMiss(c) =>
                \E e \in CacheGet(cache', computeHash(callText[c])) :
                   /\ e.timestamp = clock
                   /\ ValuesAfter(e.chunks) = ValuesAfter(callResult'[c])
          /\ ReturnsHit(c) =>
                \A e \in CacheGet(cache, computeHash(callText[c])) :
                   ~IsExpired(e, clock)
      ]_vars

\* C18 for the texts that are not blank once the metadata block is taken
\* off and the URLs are blanked.
C18_MissLeavesFreshEntryUnlessBlank ==
    [][\A c \in ChunkCallers :
          /\ (ReturnsMiss(c) /\ ~BlankWithoutUrls(callText[c])) =>
                \E e \in CacheGet(cache', computeHash(callText[c])) :
                   /\ e.timestamp = clock
                   /\ ValuesAfter(e.chunks) = ValuesAfter(callResult'[c])
          /\ ReturnsHit(c) =>
                \A e \in CacheGet(cache, computeHash(callText[c])) :
                   ~IsExpired(e, clock)
      ]_vars

\* The cache holds at most the maximum entry count after the step.
SizeBoundKept == Len(cache') <= MAX_CACHE_SIZE

\* No entry older than the time-to-live is left after the step.
NoExpiredEntryLeft == \A e \in Range(cache') : ~IsExpired(e, clock')

\* No entry is removed by the step while a strictly older one is kept.
OldestRemovedFirst ==
    \A removed \in Range(cache) : \A kept \in Range(cache') :
        (\A e \in Range(cache') : e.key # removed.key)
        => kept.timestamp >= removed.timestamp

\* C19: the cache never holds more than the maximum entry count; right
\* after a miss has been handled no entry older than the time-to-live
\* remains; and no entry is removed while a strictly older one is kept.
C19_BoundedAndOldestFirst ==
    [][/\ SizeBoundKept
       /\ \A c \in ChunkCallers : ReturnsMiss(c) => NoExpiredEntryLeft
       /\ OldestRemovedFirst
      ]_vars

\* C19 with the second part for the misses that get to the store.
C19_BoundedAndOldestFirstUnlessBlank ==
    [][/\ SizeBoundKept
       /\ \A c \in ChunkCallers :
             (ReturnsMiss(c) /\ ~BlankWithoutUrls(callText[c])) => NoExpiredEntryLeft
       /\ OldestRemovedFirst
      ]_vars

\* The entry is in the cache before the step and its key is not after it.
IsRemoved(entry) ==
    entry \in Range(cache) /\ \A e \in Range(cache') : e.key # entry.key

\* What may remove an entry: its age, the size limit (the cache is full
\* afterwards and nothing older is kept), or clearCache.
RemovedForAge(entry) == IsExpired(entry, clock')

RemovedForSize(entry) ==
    /\ Len(cache') = MAX_CACHE_SIZE
    /\ \A kept \in Range(cache') : kept.timestamp >= entry.timestamp

C20_InterleavedCallsStaySoundForExactlyEncodedText ==
    [][/\ \A c \in ChunkCallers :
             ((ReturnsHit(c) \/ ReturnsMiss(c)) /\ IsEncodedExactly(callText[c]))
             => ValuesAfter(callResult'[c]) = chunkMarkdown(callText[c])
       /\ \A e \in Range(cache') :
             \E text \in CacheTexts :
                /\ computeHash(text) = e.key
                /\ ValuesAfter(e.chunks) = chunkMarkdown(text)
       /\ \A e \in Range(cache) :
             IsRemoved(e) => (RemovedForAge(e) \/ RemovedForSize(e) \/ ClearCache)
      ]_vars

(***************************************************************************)
(* More claims about Part 3 (specification SpecChunk)                      *)
(***************************************************************************)
\* The spans that lie inside a chunk's range, in the segmenter's order.
SpansWithin(spans, shift, chunk) ==
    SelectSeq(spans, LAMBDA s : /\ chunk.originalOffsetStart <= shift + s.startOffset
                                /\ shift + s.endOffset <= chunk.originalOffsetEnd)

\* The texts of a run of spans, joined by one space.
RECURSIVE JoinedBySpace(_)
JoinedBySpace(run) ==
    IF run = <<>> THEN <<>>
    ELSE IF Len(run) = 1 THEN run[1].text
    ELSE run[1].text \o <<" ">> \o JoinedBySpace(Tail(run))

\* C29: every chunk chunkMarkdown emits is built from a run of consecutive
\* spans: its text is the spans' texts joined by one space, it starts where
\* the first span of the run starts and ends where the last one ends (both
\* shifted by the length of the stripped metadata block), and the runs, one
\* after the other, are the segmenter's spans: each span is in exactly one
\* chunk.
C29_ChunksAreRunsOfSpans ==
    Chunked =>
        LET spans == Spans
            shift == StrippedLength
            runs == [i \in DOMAIN chunksFromMarkdown |->
                        SpansWithin(spans, shift, chunksFromMarkdown[i])]
        IN /\ \A i \in DOMAIN chunksFromMarkdown :
                 /\ runs[i] # <<>>
                 /\ chunksFromMarkdown[i].text = JoinedBySpace(runs[i])
                 /\ chunksFromMarkdown[i].originalOffsetStart
                       = shift + runs[i][1].startOffset
                 /\ chunksFromMarkdown[i].originalOffsetEnd
                       = shift + runs[i][Len(runs[i])].endOffset
           /\ Flatten(runs) = spans

\* C29 witness: a document was chunked into two chunks or more, one of them
\* a run of two spans or more.
C29_Witness ==
    /\ Chunked
    /\ Len(chunksFromMarkdown) >= 2
    /\ \E i \in DOMAIN chunksFromMarkdown :
          Len(SpansWithin(Spans, StrippedLength, chunksFromMarkdown[i])) >= 2


(***************************************************************************)
(* Claims about Part 5                                                     *)
(***************************************************************************)
\* The run of VectorizationService.vectorizeAllNotes has left its loop.
PastLoop == indexPc \in {"storing", "returned", "threw"}

\* The run of CommandHandler.vectorizeAllNotes has left its read loop.
CommandPastLoop == cmdPc \in {"vectorizing", "returned"}

\* The files whose processing the service gave up (line 69 logs each).
FailedFiles == {logged[k].path : k \in {j \in 1..Len(logged) :
                                          logged[j].line = "Failed to process file"}}

\* Every file has gone through the service's loop, whatever failed, and
\* the run did not reject unless the batch call did.
ServiceSkipsFailedDocument ==
    /\ PastLoop => fileIndex = Len(vaultFiles)
    /\ indexPc = "threw" => storeReply.status = "rejected"
    /\ indexPc \in {"reading", "storing", "returned", "threw"} =>
          \A i \in 1..Len(vaultFiles) :
             (i <= fileIndex /\ vaultFiles[i].path \notin FailedFiles
                /\ ~IsBlank(vaultFiles[i].content))
             => \A k \in 1..Len(chunkText(chunkMarkdown(vaultFiles[i].content), NoPath)) :
                   \E j \in 1..Len(allChunksToProcess) :
                      allChunksToProcess[j].filePath = vaultFiles[i].path

\* Every file has gone through the command's read loop: the files up to
\* cmdFileIndex were read, the next one is the one whose read failed, if
\* any did, and none is left behind it.
CommandSkipsFailedDocument ==
    CommandPastLoop =>
       /\ cmdFileIndex + 1 >= Len(vaultFiles)
       /\ \A i \in 1..cmdFileIndex :
             \A k \in 1..Len(ItemsOf(vaultFiles[i])) :
                \E j \in 1..Len(allItems) : allItems[j] = ItemsOf(vaultFiles[i])[k]

\* C21: in a run that indexes every note, a failure while one document is
\* read or chunked is caught and that document is skipped; every document
\* after it is still read and processed, and the run does not fail because
\* of it.
C21_FailedDocumentIsSkipped ==
    ServiceSkipsFailedDocument /\ CommandSkipsFailedDocument

\* C21 for VectorizationService.vectorizeAllNotes alone.
C21_ServiceSkipsFailedDocument == ServiceSkipsFailedDocument

\* A failed document was followed by one whose chunks were collected, and
\* the run returned.
C21_ServiceWitness ==
    /\ indexPc = "returned"
    /\ \E i \in 1..Len(vaultFiles) :
          /\ vaultFiles[i].path \in FailedFiles
          /\ \E j \in 1..Len(allChunksToProcess) :
                \E i2 \in (i + 1)..Len(vaultFiles) :
                   allChunksToProcess[j].filePath = vaultFiles[i2].path


\* C22: the batched embed-and-upsert call (vectorizeAndStoreChunks) is
\* issued at most once in a run, only after every document has been read
\* and chunked, and exactly when at least one record was accumulated.
C22_OneBatchedCallAfterTheLoop ==
    /\ Len(storeCalls) <= 1
    /\ ~PastLoop => storeCalls = <<>>
    /\ storeCalls # <<>> => fileIndex = Len(vaultFiles)
    /\ PastLoop => (Len(storeCalls) = 1 <=> Len(allChunksToProcess) >= 1)

\* Both cases in one vault: the call was made after three files, of which
\* only the last gave records.
C22_Witness ==
    /\ Len(storeCalls) = 1
    /\ Len(vaultFiles) = 3
    /\ \A j \in 1..Len(allChunksToProcess) :
          allChunksToProcess[j].filePath = vaultFiles[3].path

\* The run returned without any record, and without the call.
C22_NoCallWitness ==
    /\ indexPc = "returned"
    /\ Len(vaultFiles) >= 2
    /\ allChunksToProcess = <<>>
    /\ storeCalls = <<>>

\* The records of a file, from the chunks the assembler gives for it.
RecordsOf(file) ==
    LET chunks == chunkMarkdown(file.content)
    IN [k \in 1..Len(chunks) |->
           [filePath |-> file.path,
            chunkOffsetStart |-> chunks[k].originalOffsetStart,
            chunkOffsetEnd |-> chunks[k].originalOffsetEnd,
            text |-> chunks[k].text]]

\* The records of the first n files that are not blank and did not fail,
\* in the order of the files.
RECURSIVE RecordsUpTo(_)
RecordsUpTo(n) ==
    IF n = 0 THEN <<>>
    ELSE RecordsUpTo(n - 1)
         \o (IF IsBlank(vaultFiles[n].content) \/ vaultFiles[n].path \in FailedFiles
             THEN <<>>
             ELSE RecordsOf(vaultFiles[n]))

ProcessedFiles == IF indexPc = "idle" THEN 0 ELSE fileIndex

HasLine(path, line) == \E k \in 1..Len(logged) : logged[k] = [path |-> path, line |-> line]

HasNotice(path, message) ==
    \E k \in 1..Len(progress) :
       progress[k] = [path |-> path, message |-> message, isOverallProgress |-> FALSE]

\* C23: the records accumulated, and passed to the batched call, are
\* exactly the chunks of the documents that were not blank and were
\* processed without failure, each with its own document's path and the
\* chunk's offsets and text, in the order of the documents; a blank
\* document gives no record and is reported as skipped, not as an error.
C23_RecordsAreTheChunksInOrder ==
    /\ allChunksToProcess = RecordsUpTo(ProcessedFiles)
    /\ \A k \in 1..Len(storeCalls) : storeCalls[k] = RecordsUpTo(Len(vaultFiles))
    /\ \A i \in 1..ProcessedFiles :
          LET file == vaultFiles[i]
          IN (IsBlank(file.content) /\ file.path \notin FailedFiles)
             => /\ \A j \in 1..Len(allChunksToProcess) :
                      allChunksToProcess[j].filePath # file.path
                /\ HasLine(file.path, "Skipping empty file")
                /\ ~HasNotice(file.path, "Skipping file due to error")
                /\ onProgress => HasNotice(file.path, "skipped empty")

\* The call was given the records of two files, one of them of two chunks,
\* with a blank file and a failed file among the three.
C23_Witness ==
    /\ indexPc = "storing"
    /\ onProgress
    /\ Len(vaultFiles) = 3
    /\ \E i \in 1..3 : IsBlank(vaultFiles[i].content) /\ vaultFiles[i].path \notin FailedFiles
    /\ \E i \in 1..3 : /\ Len(RecordsOf(vaultFiles[i])) >= 2
                       /\ \E j \in 1..Len(storeCalls[1]) :
                             storeCalls[1][j].filePath = vaultFiles[i].path

\* C24: if the batched call fails, the run fails to its caller; if it
\* succeeds, totalVectorsProcessed is the count the backend reported; if no
\* call was issued, it is 0.
C24_TotalIsTheBackendsCount ==
    /\ storeReply.status = "rejected" <=> indexPc = "threw"
    /\ storeReply.status = "resolved"
          => indexPc = "returned" /\ totalVectorsProcessed = storeReply.count
    /\ (indexPc = "returned" /\ storeCalls = <<>>) => totalVectorsProcessed = 0
    /\ indexPc = "returned" => (storeCalls # <<>> => storeReply.status = "resolved")

\* The backend reported fewer vectors than records were sent.
C24_Witness ==
    /\ indexPc = "returned"
    /\ storeReply.status = "resolved"
    /\ storeReply.count < Len(storeCalls[1])
    /\ totalVectorsProcessed = storeReply.count

\* The batched call failed and so did the run.
C24_FailureWitness ==
    /\ indexPc = "threw"
    /\ storeReply.status = "rejected"


(***************************************************************************)
(* Claims about Part 6                                                     *)
(***************************************************************************)
CallsOfType(type) == SelectSeq(workerCalls, LAMBDA call : call.type = type)

\* C25: findSimilarChunks returns the empty list without any call on the
\* worker when the note vector is empty or absent; for a non-empty vector
\* it issues exactly one nearest-neighbour query, with that vector.
C25_EmptyVectorMakesNoCall ==
    svcOp = "findSimilarChunks" /\ viewPc = "idle" =>
       LET noteVector == svcArgs.noteVector
       IN IF noteVector.kind = "null" \/ Len(noteVector.value) = 0
          THEN /\ workerCalls = <<>>
               /\ svcResult = Returned("results", <<>>)
          ELSE /\ Len(workerCalls) = 1
               /\ workerCalls[1].type = "searchSimilarByVector"
               /\ workerCalls[1].args.vector = noteVector.value

\* findSimilarChunks was given an empty vector, and has returned.
C25_Witness ==
    /\ svcOp = "findSimilarChunks"
    /\ viewPc = "idle"
    /\ svcArgs.noteVector = Vector(<<>>)
    /\ svcPc = "returned"

\* findSimilarChunks was given a vector, and returned the query's results.
C25_QueryWitness ==
    /\ svcOp = "findSimilarChunks"
    /\ viewPc = "idle"
    /\ svcArgs.noteVector.kind = "vector"
    /\ svcPc = "returned"
    /\ Len(svcResult.value) >= 1

\* The queries made for the active note exclude its path, and the linked
\* paths the settings name; no result shown has the active note's path.
ActiveNoteIsExcluded ==
    /\ \A k \in 1..Len(workerCalls) :
          workerCalls[k].type = "searchSimilarByVector" =>
             LET excluded == workerCalls[k].args.options.excludeFilePaths
             IN /\ activeFile \in excluded
                /\ settings.excludeOutgoingLinksFromRelatedChunks
                      => OutgoingLinks(activeFile) \subseteq excluded
                /\ settings.excludeBacklinksFromRelatedChunks
                      => Backlinks(activeFile) \subseteq excluded
    /\ \A k \in 1..Len(shownResults) : shownResults[k].file_path # activeFile

\* C26: a document never appears similar to itself: every query issued for
\* an active document passes an exclusion set that contains the document's
\* own path (and its outgoing-link targets and backlink sources when those
\* settings are on), so no result shown for it has its path.
C26_NeverSimilarToItself ==
    viewPc # "idle" => ActiveNoteIsExcluded

\* C26 for an active note that the user's ignore filters do not match, or
\* with the filters switched off.
C26_NeverSimilarToItselfUnlessIgnored ==
    (viewPc # "idle" /\ ~activeFileIgnored(activeFile)) => ActiveNoteIsExcluded

\* Results were shown for a note that is in the store and is not ignored.
C26_UnlessIgnoredWitness ==
    /\ viewPc = "shown"
    /\ ~activeFileIgnored(activeFile)
    /\ activeFile \in storedPaths
    /\ Len(shownResults) >= 1

\* C27: getNoteVectorFromDB reports "not found" (null) only when the
\* backend returned no stored vectors for the path; a backend failure while
\* the stored vectors are fetched or averaged, or the neighbours queried,
\* reaches the caller as a failed call and is never reported as "not
\* found" or as an empty result.  (A file that is no longer in the vault is
\* left aside: for it null is returned before the backend is asked.)
C27_BackendFailureReachesCaller ==
    /\ (svcOp = "getNoteVectorFromDB" /\ svcPc = "returned"
          /\ svcResult.value.kind = "null" /\ svcArgs.inVault)
       => /\ Len(workerCalls) = 1
          /\ workerCalls[1].type = "getVectorsByFilePath"
          /\ workerCalls[1].reply = "resolved"
          /\ svcArgs.file \notin storedPaths
    /\ (svcOp \in {"getNoteVectorFromDB", "findSimilarChunks"}
          /\ \E k \in 1..Len(workerCalls) : workerCalls[k].reply = "rejected")
       => svcPc = "threw"

\* C27 for the query of findSimilarChunks alone.
C27_QueryFailureReachesCaller ==
    (svcOp = "findSimilarChunks"
       /\ \E k \in 1..Len(workerCalls) :
             /\ workerCalls[k].type = "searchSimilarByVector"
             /\ workerCalls[k].reply = "rejected")
    => svcPc = "threw" /\ svcResult = Threw

\* The query failed, and so did findSimilarChunks.
C27_QueryFailureWitness ==
    /\ svcOp = "findSimilarChunks"
    /\ svcPc = "threw"
    /\ workerCalls[Len(workerCalls)].reply = "rejected"

\* The chunk texts of the note getNoteVector was called for.
NoteChunkTexts ==
    LET infos == chunkText(chunkMarkdown(svcArgs.content), svcArgs.file)
    IN [k \in 1..Len(infos) |-> infos[k].chunk]

\* getNoteVector embeds the chunk texts, averages the vectors it got if
\* there is at least one, returns the average, and calls nothing else.
EmbedThenAverage ==
    LET types == [k \in 1..Len(workerCalls) |-> workerCalls[k].type]
    IN /\ types \in {<<>>, <<"vectorizeSentences">>,
                     <<"vectorizeSentences", "averageVectors">>}
       /\ Len(workerCalls) >= 1
             => /\ workerCalls[1].args = NoteChunkTexts
                /\ workerCalls[1].args # <<>>
       /\ Len(workerCalls) = 2
             => /\ workerCalls[1].reply = "resolved"
                /\ workerCalls[2].args # <<>>
                /\ workerCalls[2].args =
                      [k \in 1..Len(NoteChunkTexts) |-> VectorOf(NoteChunkTexts[k])]
       /\ (Len(workerCalls) = 2 /\ workerCalls[2].reply = "resolved")
             => svcResult = Returned("vector", Vector(AverageOf(workerCalls[2].args)))
       /\ (svcPc = "returned" /\ svcResult.value.kind = "vector")
             => Len(workerCalls) = 2 /\ workerCalls[2].reply = "resolved"

C28_BlankWitness ==
    /\ svcOp = "getNoteVector"
    /\ svcPc = "returned"
    /\ IsBlank(svcArgs.content)
    /\ workerCalls = <<>>


(***************************************************************************)
(* Claims about Part 7                                                     *)
(***************************************************************************)
\* The chunk at index i is the span alone: its text and its shifted range.
IsSpanAlone(chunk, span) ==
    /\ chunk.text = span.text
    /\ chunk.originalOffsetStart = spanShift + span.startOffset
    /\ chunk.originalOffsetEnd = spanShift + span.endOffset

\* The span lies in the chunk's range.
CoveredBy(span, chunk) ==
    /\ chunk.originalOffsetStart <= spanShift + span.startOffset
    /\ spanShift + span.endOffset <= chunk.originalOffsetEnd

\* C30: a span whose length meets or exceeds MAX_CHUNK_SIZE is emitted as a
\* chunk of its own, with its text verbatim and merged with no other span,
\* and the chunk accumulated before it is flushed first: every span before
\* it is in a chunk that precedes the span's chunk in the output.
C30_LongSpanIsItsOwnChunk ==
    assemblyPc = "done" =>
       \A k \in 1..Len(spanList) :
          Len(spanList[k].text) >= MAX_CHUNK_SIZE =>
             \E i \in 1..Len(assembledChunks) :
                /\ IsSpanAlone(assembledChunks[i], spanList[k])
                /\ \A k2 \in 1..(k - 1) :
                      \E j \in 1..(i - 1) : CoveredBy(spanList[k2], assembledChunks[j])
                /\ \A k2 \in (k + 1)..Len(spanList) :
                      \E j \in (i + 1)..Len(assembledChunks) :
                         CoveredBy(spanList[k2], assembledChunks[j])

\* A chunk of two spans was being accumulated when a span longer than
\* MAX_CHUNK_SIZE came, and the output has both.
C30_Witness ==
    /\ assemblyPc = "done"
    /\ Len(spanList) = 3
    /\ Len(spanList[3].text) > MAX_CHUNK_SIZE
    /\ Len(assembledChunks) = 2
    /\ IsSpanAlone(assembledChunks[2], spanList[3])

\* The same for a span of exactly MAX_CHUNK_SIZE characters.
C30_ExactWitness ==
    /\ assemblyPc = "done"
    /\ Len(spanList) = 3
    /\ Len(spanList[2].text) = MAX_CHUNK_SIZE
    /\ Len(assembledChunks) = 3
    /\ IsSpanAlone(assembledChunks[2], spanList[2])


(***************************************************************************)
(* Further claims about Part 3                                             *)
(***************************************************************************)
\* C31: packing is greedy: a chunk is closed before a span only when the
\* span is oversized or when appending it, behind one space, would make the
\* chunk longer than MAX_CHUNK_SIZE; so for two consecutive chunks, neither
\* an oversized span, the first chunk's length plus one plus the length of
\* the second chunk's first span exceeds MAX_CHUNK_SIZE.
C31_PackingIsGreedy ==
    Chunked =>
       LET spans == Spans
           shift == StrippedLength
       IN \A i \in 1..(Len(chunksFromMarkdown) - 1) :
             LET first == chunksFromMarkdown[i]
                 second == chunksFromMarkdown[i + 1]
                 run == SpansWithin(spans, shift, second)
             IN (Len(first.text) <= MAX_CHUNK_SIZE /\ Len(run[1].text) <= MAX_CHUNK_SIZE)
                => Len(first.text) + 1 + Len(run[1].text) > MAX_CHUNK_SIZE

\* Two chunks, the first shorter than the maximum and closed because the
\* second chunk's first span did not fit behind it.
C31_Witness ==
    /\ Chunked
    /\ Len(chunksFromMarkdown) >= 2
    /\ Len(chunksFromMarkdown[1].text) < MAX_CHUNK_SIZE
    /\ Len(chunksFromMarkdown[1].text) + 1
          + Len(SpansWithin(Spans, StrippedLength, chunksFromMarkdown[2])[1].text)
          > MAX_CHUNK_SIZE


\* The trimmed texts of the sentences that are subdivided.
SubdividedTexts ==
    {TrimmedSlice(Slice(SegmenterInput, range[1], range[2])) : range \in SubdividedSentences}

\* The cursors of splitSentenceByMaxLength on a sentence text, from the
\* given one on: each is the end of the segment before it.
RECURSIVE CursorsFrom(_, _)
CursorsFrom(text, cursor) ==
    IF cursor >= Len(text) THEN <<>>
    ELSE <<cursor>> \o CursorsFrom(text, SegmentEnd(text, cursor))

\* The indexes a cut may be put at, for a segment starting at the cursor:
\* right after a white-space or punctuation character, with at least the
\* minimum and at most the maximum number of characters before it.
CutCandidates(text, cursor) ==
    {i \in (cursor + MIN_SENTENCE_CHARS)..(cursor + MAX_SENTENCE_CHARS) :
        text[i] \in {" ", "\n", ",", ".", "!", "?"}}

\* C32: a sentence longer than MAX_SENTENCE_CHARS is subdivided so that
\* every piece is at most MAX_SENTENCE_CHARS long; each cut is right after
\* the last white-space or punctuation character found walking backward
\* from the maximum length while the piece keeps at least the minimum
\* length, and at exactly the maximum length if there is none.
C32_CutsAfterLastSeparator ==
    Chunked =>
       /\ \A range \in SubdividedSentences :
             \A k \in DOMAIN NodeSpans(SegmenterInput, range) :
                Len(NodeSpans(SegmenterInput, range)[k].text) <= MAX_SENTENCE_CHARS
       /\ \A text \in SubdividedTexts :
             LET cursors == CursorsFrom(text, 0)
             IN \A k \in DOMAIN cursors :
                   LET cursor == cursors[k]
                       end == SegmentEnd(text, cursor)
                   IN IF cursor + MAX_SENTENCE_CHARS < Len(text)
                      THEN end = IF CutCandidates(text, cursor) # {}
                                 THEN MaxOf(CutCandidates(text, cursor))
                                 ELSE cursor + MAX_SENTENCE_CHARS
                      ELSE end >= Len(text) /\ k = Len(cursors)

\* A sentence was cut after a separator, before the maximum length, though
\* an earlier separator was as far as the minimum length; and cut at the
\* maximum length where it had no separator.
C32_Witness ==
    /\ Chunked
    /\ \E text \in SubdividedTexts :
          LET cursors == CursorsFrom(text, 0)
          IN \E k \in DOMAIN cursors :
                /\ cursors[k] + MAX_SENTENCE_CHARS < Len(text)
                /\ CutCandidates(text, cursors[k]) # {}
                /\ SegmentEnd(text, cursors[k]) < cursors[k] + MAX_SENTENCE_CHARS
    /\ \E text \in SubdividedTexts :
          LET cursors == CursorsFrom(text, 0)
          IN \E k \in DOMAIN cursors :
                /\ cursors[k] + MAX_SENTENCE_CHARS < Len(text)
                /\ CutCandidates(text, cursors[k]) = {}


\* The character at index i of the text is inside a URL: some "http://" or
\* "https://" before it is followed by at least one more character, and no
\* white space, ")", ">" or "]" stands between its start and index i.
InsideUrl(text, i) ==
    \E s \in 1..i :
       \E scheme \in {<<"h", "t", "t", "p", ":", "/", "/">>,
                      <<"h", "t", "t", "p", "s", ":", "/", "/">>} :
          /\ s + Len(scheme) <= Len(text)
          /\ SubSeq(text, s, s + Len(scheme) - 1) = scheme
          /\ \A j \in s..MaxOf({i, s + Len(scheme)}) :
                text[j] \notin {" ", "\n", ")", ">", "]"}

\* C33: URL blanking returns a text of the same length, in which every
\* character outside a URL is the same character at the same index and
\* every character inside a URL is a space: it shifts no offset.
C33_UrlBlankingKeepsOffsets ==
    Chunked =>
       /\ Len(removeUrls(StrippedText)) = Len(StrippedText)
       /\ \A i \in 1..Len(StrippedText) :
             removeUrls(StrippedText)[i]
                = IF InsideUrl(StrippedText, i) THEN " " ELSE StrippedText[i]

\* A document with a URL and a letter after it was chunked: the URL was
\* blanked and the letter kept its index.
C33_Witness ==
    /\ Chunked
    /\ \E i \in 1..Len(StrippedText) :
          /\ InsideUrl(StrippedText, i)
          /\ \E j \in (i + 1)..Len(StrippedText) :
                /\ StrippedText[j] = "a"
                /\ j <= Len(removeUrls(StrippedText))
                /\ removeUrls(StrippedText)[j] = "a"


(***************************************************************************)
(* Claims about Part 8.                                                    *)
(***************************************************************************)
\* C34: subdividing a sentence always terminates: every iteration of the
\* loop leaves the cursor strictly greater than it found it, the loop's
\* body runs at most as many times as the sentence has characters, and a
\* call that entered the loop returns.
C34_SubdividingTerminates ==
    /\ [][splitIterations' # splitIterations => splitCursor' > splitCursor]_vars
    /\ [](splitIterations <= Len(splitText))
    /\ (splitPc = "loop") ~> (splitPc = "returned")

\* A sentence was subdivided in three iterations or more and the call
\* returned with the cursor at the sentence's end.
C34_Witness ==
    /\ splitPc = "returned"
    /\ Len(splitText) > MAX_SENTENCE_CHARS
    /\ splitIterations >= 3
    /\ splitCursor >= Len(splitText)


(***************************************************************************)
(* Claims about Part 9.                                                    *)
(***************************************************************************)
LookupsInFlight ==
    {i \in DOMAIN lookups : lookups[i].pc \in {"getting vector", "searching", "activating"}}

RunOfHandleActiveLeafChange == debouncePending /\ ~debouncePending'

\* C36: a run of handleActiveLeafChange records its path as
\* lastProcessedFilePath whatever comes of it; the record changes only in
\* a run and in resetLastProcessedFile; and a run whose path is the
\* recorded one starts no vector lookup and no query.
C36_NoLookupForLastProcessed ==
    [][ /\ RunOfHandleActiveLeafChange =>
              /\ lastProcessedFilePath' = workspaceFile
              /\ workspaceFile = lastProcessedFilePath =>
                    lookups' = lookups /\ relatedChunksView' = relatedChunksView
        /\ (lastProcessedFilePath' # lastProcessedFilePath
               /\ ~RunOfHandleActiveLeafChange) =>
              lastProcessedFilePath' = NoPath /\ handledSinceReset' = {}
      ]_vars

\* A path was handled while the service was not ready; the service became
\* ready and a later run for the same path started no lookup.
C36_Witness ==
    /\ lastRun.repeated
    /\ ~lastRun.lookedUp
    /\ lastRun.path # NoPath
    /\ lastRun.path = lastProcessedFilePath
    /\ noteVectorServiceReady
    /\ lookups = <<>>

\* C36 as stated: a run for a path that handleActiveLeafChange has run for
\* since the last resetLastProcessedFile starts no lookup.
C36_NoLookupForHandledPath ==
    lastRun.repeated => ~lastRun.lookedUp

\* C37: while the view is in search-results mode, a step that is neither
\* of the sidebar search nor the back click (so every call of updateView
\* and clearView) leaves the note name, the results and the query as they
\* are; the mode is left only by the back click, which shows the active
\* note's name with no results, resets lastProcessedFilePath and calls
\* handleActiveLeafChange.
C37_SearchResultsModeKept ==
    [][ relatedChunksView.isSearchResultsMode =>
           IF relatedChunksView'.isSearchResultsMode
           THEN searchPc' = searchPc => relatedChunksView' = relatedChunksView
           ELSE /\ relatedChunksView' =
                      [currentNoteName |-> IF workspaceFile = NoPath THEN NoPath
                                           ELSE Basename(workspaceFile),
                       currentResults |-> <<>>,
                       isSearchResultsMode |-> FALSE,
                       searchQuery |-> NoQuery]
                /\ lastProcessedFilePath' = NoPath
                /\ debouncePending'
      ]_vars

\* A lookup finished while the view showed search results: its updateView
\* or clearView was ignored and the view still shows the search.
C37_Witness ==
    /\ relatedChunksView.isSearchResultsMode
    /\ relatedChunksView.searchQuery = SidebarQuery
    /\ relatedChunksView.currentResults = SearchHits
    /\ \E i \in DOMAIN lookups : lookups[i].pc = "ignored"


(***************************************************************************)
(* More claims about Part 2.                                               *)
(***************************************************************************)
NoRunInProgress == \A r \in Runs : runPc[r] # "awaitProxy"

\* C38: whenever no run of initializeResources is in progress, a command
\* handler is there only together with the three services and a proxy that
\* has not been terminated; and the condition on which
\* ensureResourcesInitialized reports readiness never holds with a
\* terminated proxy.
C38_HandlerImpliesLiveResources ==
    /\ (NoRunInProgress /\ commandHandler) =>
          /\ vectorizationService # 0
          /\ searchService # 0
          /\ storageManagementService # 0
          /\ proxy # 0
          /\ proxy \notin proxyTerminated
    /\ ResourcesReady => proxy \notin proxyTerminated
    /\ \A e \in Callers :
          (ensurePc[e] = "ok" /\ commandHandler) => proxy \notin proxyTerminated \cup {0}

\* The resources were initialized, cleared and initialized again on a second
\* proxy, the first one terminated, and ensureResourcesInitialized has
\* reported readiness.
C38_Witness ==
    /\ NoRunInProgress
    /\ commandHandler
    /\ proxy = 2
    /\ 1 \in proxyTerminated
    /\ \E e \in Callers : ensurePc[e] = "ok"

\* C39: once clearResources is past its reset and awaits the deletion of
\* the database files, the proxy, the services, the command handler and
\* the initialization handle are all reset, so that the next
\* ensureResourcesInitialized starts a new initialization on a new proxy;
\* also when an initialization was in flight.
C39_ClearResourcesResets ==
    [][ (clearPc # "awaitDelete" /\ clearPc' = "awaitDelete") =>
           /\ proxy' = 0
           /\ ~commandHandler'
           /\ vectorizationService' = 0
           /\ searchService' = 0
           /\ storageManagementService' = 0
           /\ initializationPromise' = NoPromise
      ]_vars

(***************************************************************************)
(* Claims about Part 10 (PGliteProvider), checked on SpecProvider.         *)
(***************************************************************************)
\* A call of close() that was not made by discardDB returns in this step.
CloseCompletes == closePc = "closing" /\ closePc' = "idle" /\ discardPc # "closing"

\* A call of discardDB() returns or throws in this step.
DiscardCompletes == discardPc = "deleting" /\ discardPc' = "idle"

\* C40: when close() or discardDB() has completed, resolved or rejected,
\* isReady() is false and getClient() throws (the state changes again only
\* when a later initialize() succeeds); and in every state isInitialized
\* implies that a client is held.
C40_ClosedProviderNotReady ==
    /\ [][ (CloseCompletes \/ DiscardCompletes) => (~isReady' /\ getClientThrows') ]_vars
    /\ [](pgInitialized => pgClient # 0)

\* The parts of C40 that the code keeps: discardDB leaves the provider not
\* ready, and isInitialized implies a client.
C40_DiscardLeavesNotReady ==
    [][ DiscardCompletes => (~isReady' /\ getClientThrows') ]_vars

C40_InitializedHoldsClient == pgInitialized => pgClient # 0

\* close() of pgworker/index.ts leaves the provider not ready when the
\* client's close() resolved.
C40_ResolvedCloseLeavesNotReady ==
    [][ (CloseCompletes /\ providerFile = "pgworker/index.ts"
            /\ closedClients' # closedClients)
        => (~isReady' /\ getClientThrows') ]_vars

====
